---------------------------- MODULE Spec2Model ----------------------------
(***************************************************************************)
(* Model of followcursor's ZoomEngine (app/zoom_engine.py): the keyframe   *)
(* list, the cached zoom/pan, the undo/redo stacks and compute_at; and of  *)
(* the activity analyzer (app/activity_analyzer.py): _dampen_pan and       *)
(* analyze_activity, two pure functions, each applied once to an argument  *)
(* list drawn by the initial state (SpecDampen, SpecAnalyze).              *)
(*                                                                         *)
(* Numbers.  Timestamps and durations are integers (milliseconds in an     *)
(* abstract unit).  zoom, x, y and everything compute_at derives from them *)
(* are exact rationals <<numerator, denominator>> in lowest terms with a   *)
(* positive denominator, so that equality of values is equality of tuples. *)
(* The float rounding of the Python code is not modelled.                  *)
(*                                                                         *)
(* A keyframe is the record [id, timestamp, zoom, x, y, duration] of       *)
(* models.ZoomKeyframe; its free-text `reason` is read by no engine        *)
(* operation and is left out.  The keyframes the analyzer creates are      *)
(* [timestamp, zoom, x, y, duration, reason], timestamps being rationals   *)
(* there because window centres are averages.                              *)
(***************************************************************************)
EXTENDS Integers, Sequences, FiniteSets, TLC

VARIABLES
    keyframes,      \* ZoomEngine.keyframes: sequence of keyframes
    current_zoom,   \* ZoomEngine.current_zoom
    current_pan_x,  \* ZoomEngine.current_pan_x
    current_pan_y,  \* ZoomEngine.current_pan_y
    undo_stack,     \* ZoomEngine._undo_stack: sequence of keyframe lists
    redo_stack,     \* ZoomEngine._redo_stack
    op,             \* name of the operation called last
    arg,            \* the time passed to compute_at, else 0; under SpecDampen
                    \* and SpecAnalyze the record of the call's arguments
    ret,            \* its return value in a tuple, <<>> for None
    trip            \* the caller's edit / undo / redo session (SpecRoundTrip,
                    \* SpecInterleave)

vars == <<keyframes, current_zoom, current_pan_x, current_pan_y,
          undo_stack, redo_stack, op, arg, ret, trip>>

engine == <<keyframes, current_zoom, current_pan_x, current_pan_y,
            undo_stack, redo_stack>>

-----------------------------------------------------------------------------
(* Bounds of the model *)

\* longest live keyframe list the free specifications build
MaxKeyframes == 2
\* query times of compute_at / update are 0..MaxTime
MaxTime == 6
\* Spec: push_undo is exercised while the undo stack is shorter than this
MaxHist == 2
\* SpecDepth: the list is edited only while the two stacks together hold at
\* most this many snapshots
MaxEditDepth == 3
\* SpecRoundTrip: a session performs at most this many edits
MaxEdits == 52
\* SpecRoundTrip: length of the repeating pattern of mutations
ScriptLen == 2

-----------------------------------------------------------------------------
(* Exact rational arithmetic *)

Abs(n) == IF n < 0 THEN -n ELSE n

RECURSIVE GCD(_, _)
GCD(a, b) == IF b = 0 THEN a ELSE GCD(b, a % b)

Norm(r) ==
    LET g == GCD(Abs(r[1]), Abs(r[2]))
        s == IF r[2] < 0 THEN -1 ELSE 1
    IN  <<(s * r[1]) \div g, (s * r[2]) \div g>>

R(n, d) == Norm(<<n, d>>)
RAdd(a, b) == Norm(<<a[1] * b[2] + b[1] * a[2], a[2] * b[2]>>)
RSub(a, b) == Norm(<<a[1] * b[2] - b[1] * a[2], a[2] * b[2]>>)
RMul(a, b) == Norm(<<a[1] * b[1], a[2] * b[2]>>)
RLe(a, b) == a[1] * b[2] <= b[1] * a[2]
RLt(a, b) == a[1] * b[2] < b[1] * a[2]
RMin(a, b) == IF RLe(a, b) THEN a ELSE b
RMax(a, b) == IF RLe(a, b) THEN b ELSE a
RBetween(v, a, b) == RLe(RMin(a, b), v) /\ RLe(v, RMax(a, b))

\* the defaults of ZoomEngine.__init__, clear and compute_at
DefaultZoom == R(1, 1)
DefaultPan == R(1, 2)
Default == <<DefaultZoom, DefaultPan, DefaultPan>>

-----------------------------------------------------------------------------
(* zoom_engine.py, module level *)

MAX_UNDO == 50

\* ease_out(t) = 1 - (1-t)^5
ease_out(t) ==
    LET inv == RSub(R(1, 1), t)
    IN  RSub(R(1, 1), RMul(inv, RMul(inv, RMul(inv, RMul(inv, inv)))))

-----------------------------------------------------------------------------
(* ZoomEngine: pure parts *)

\* a snapshot that shares nothing with the list: the empty list
snapshot_empty(kfs) == <<>>

\* _snapshot: copy.deepcopy of the keyframe list, a value equal to it
snapshot(kfs) == kfs

\* list.sort(key=timestamp) is stable: insertion of e behind every element
\* whose timestamp is <= e.timestamp
RECURSIVE InsertByTimestamp(_, _)
InsertByTimestamp(s, e) ==
    IF s = <<>> THEN <<e>>
    ELSE IF s[Len(s)].timestamp <= e.timestamp THEN Append(s, e)
    ELSE Append(InsertByTimestamp(SubSeq(s, 1, Len(s) - 1), e), s[Len(s)])

RECURSIVE sort_by_timestamp(_)
sort_by_timestamp(s) ==
    IF s = <<>> THEN <<>>
    ELSE InsertByTimestamp(sort_by_timestamp(SubSeq(s, 1, Len(s) - 1)), s[Len(s)])

\* add_keyframe that appends without sorting
add_keyframe_unsorted(kfs, kf) == Append(kfs, kf)

\* add_keyframe: append, then sort
add_keyframe(kfs, kf) == sort_by_timestamp(Append(kfs, kf))

\* remove_keyframe: keep the keyframes whose id differs
remove_keyframe(kfs, kf_id) == SelectSeq(kfs, LAMBDA k : k.id # kf_id)

\* push_undo that never drops an entry
push_undo_stack_unbounded(us, kfs) == Append(us, snapshot(kfs))

\* push_undo that drops the oldest entry one push too early
push_undo_stack_off_by_one(us, kfs) ==
    LET a == Append(us, snapshot(kfs))
    IN  IF Len(a) >= MAX_UNDO THEN Tail(a) ELSE a

\* push_undo's effect on the undo stack: append the snapshot, drop the oldest
\* entry beyond MAX_UNDO
push_undo_stack(us, kfs) ==
    LET a == Append(us, snapshot(kfs))
    IN  IF Len(a) > MAX_UNDO THEN Tail(a) ELSE a

\* a search that falls back on the first keyframe when none has started
active_idx_first(kfs, time_ms) ==
    LET hits == {i \in 1..Len(kfs) : time_ms >= kfs[i].timestamp}
    IN  IF hits = {} THEN 1 ELSE CHOOSE i \in hits : \A j \in hits : j <= i

\* compute_at: index of the active keyframe, the last one with
\* timestamp <= time_ms, 0 when there is none
active_idx(kfs, time_ms) ==
    LET hits == {i \in 1..Len(kfs) : time_ms >= kfs[i].timestamp}
    IN  IF hits = {} THEN 0 ELSE CHOOSE i \in hits : \A j \in hits : j <= i

\* progress without the clamp to 1
progress_unclamped(kf, time_ms) ==
    IF kf.duration > 0
    THEN R(time_ms - kf.timestamp, kf.duration)
    ELSE R(1, 1)

\* progress that leaves a transition without duration at its start
progress_no_snap(kf, time_ms) ==
    IF kf.duration > 0
    THEN RMin(R(time_ms - kf.timestamp, kf.duration), R(1, 1))
    ELSE R(0, 1)

\* compute_at: progress of the active keyframe's transition
progress_of(kf, time_ms) ==
    IF kf.duration > 0
    THEN RMin(R(time_ms - kf.timestamp, kf.duration), R(1, 1))
    ELSE R(1, 1)

\* interpolation with its endpoints exchanged
lerp_swapped(a, b, eased) == RAdd(b, RMul(RSub(a, b), eased))

\* compute_at: zoom = prev_zoom + (active_kf.zoom - prev_zoom) * eased
lerp(a, b, eased) == RAdd(a, RMul(RSub(b, a), eased))

compute_at(kfs, time_ms) ==
    IF kfs = <<>> THEN Default
    ELSE LET i == active_idx(kfs, time_ms)
         IN  IF i = 0 THEN Default
             ELSE LET kf == kfs[i]
                      eased == ease_out(progress_of(kf, time_ms))
                      prev_zoom == IF i > 1 THEN kfs[i - 1].zoom ELSE DefaultZoom
                      prev_x == IF i > 1 THEN kfs[i - 1].x ELSE DefaultPan
                      prev_y == IF i > 1 THEN kfs[i - 1].y ELSE DefaultPan
                  IN  <<lerp(prev_zoom, kf.zoom, eased),
                        lerp(prev_x, kf.x, eased),
                        lerp(prev_y, kf.y, eased)>>


-----------------------------------------------------------------------------
(* Inputs *)

\* targets (zoom, x, y) of the keyframes handed to add_keyframe
KfTargets ==
    << <<R(2, 1), R(3, 10), R(7, 10)>>,
       <<R(3, 2), R(7, 10), R(3, 10)>> >>
KfTimestamps == {1, 4}
KfDurations == {-1, 0, 2}

\* ZoomKeyframe(id, timestamp, zoom, x, y, duration)
ZoomKeyframe(id, ts, tg, d) ==
    [id |-> id, timestamp |-> ts, zoom |-> tg[1], x |-> tg[2], y |-> tg[3],
     duration |-> d]

\* The keyframes a client adds.  An id stands for the uuid4 string of
\* ZoomKeyframe.create; each keyframe of a pool has its own id, and a client
\* adds no keyframe whose id the live list already holds.
Pool ==
    {ZoomKeyframe(100 * ts + 10 * g + d + 1, ts, KfTargets[g], d) :
        ts \in KfTimestamps, g \in 1..Len(KfTargets), d \in KfDurations}
SmallPool ==
    {ZoomKeyframe(ts, ts, KfTargets[1], 2) : ts \in KfTimestamps}

Times == 0..MaxTime

IdsOf(kfs) == {kfs[i].id : i \in 1..Len(kfs)}

None == <<>>
NoTrip == [phase |-> "none", script |-> <<>>, n |-> 0, k |-> 0, j |-> 0,
           base |-> <<>>, final |-> <<>>]

cached == <<current_zoom, current_pan_x, current_pan_y>>

-----------------------------------------------------------------------------
(* ZoomEngine: the methods, as effects on the engine's fields *)

\* push_undo that keeps the redo stack
push_undo_keeps_redo ==
    /\ undo_stack' = push_undo_stack(undo_stack, keyframes)
    /\ redo_stack' = redo_stack

push_undo ==
    /\ undo_stack' = push_undo_stack(undo_stack, keyframes)
    /\ redo_stack' = <<>>

\* undo that saves the current list for redo before looking at the stack
undo_saves_first ==
    /\ redo_stack' = Append(redo_stack, snapshot(keyframes))
    /\ IF undo_stack = <<>>
       THEN /\ ret' = <<FALSE>>
            /\ UNCHANGED <<keyframes, undo_stack>>
       ELSE /\ keyframes' = undo_stack[Len(undo_stack)]
            /\ undo_stack' = SubSeq(undo_stack, 1, Len(undo_stack) - 1)
            /\ ret' = <<TRUE>>

undo ==
    IF undo_stack = <<>>
    THEN /\ ret' = <<FALSE>>
         /\ UNCHANGED <<keyframes, undo_stack, redo_stack>>
    ELSE /\ redo_stack' = Append(redo_stack, snapshot(keyframes))
         /\ keyframes' = undo_stack[Len(undo_stack)]
         /\ undo_stack' = SubSeq(undo_stack, 1, Len(undo_stack) - 1)
         /\ ret' = <<TRUE>>

redo ==
    IF redo_stack = <<>>
    THEN /\ ret' = <<FALSE>>
         /\ UNCHANGED <<keyframes, undo_stack, redo_stack>>
    ELSE /\ undo_stack' = Append(undo_stack, snapshot(keyframes))
         /\ keyframes' = redo_stack[Len(redo_stack)]
         /\ redo_stack' = SubSeq(redo_stack, 1, Len(redo_stack) - 1)
         /\ ret' = <<TRUE>>

clear_history ==
    /\ undo_stack' = <<>>
    /\ redo_stack' = <<>>

\* clear that forgets to reset the cached zoom/pan
clear_keeps_cache ==
    /\ keyframes' = <<>>
    /\ UNCHANGED <<current_zoom, current_pan_x, current_pan_y>>

clear ==
    /\ keyframes' = <<>>
    /\ current_zoom' = DefaultZoom
    /\ current_pan_x' = DefaultPan
    /\ current_pan_y' = DefaultPan

update(time_ms) ==
    LET r == compute_at(keyframes, time_ms)
    IN  /\ current_zoom' = r[1]
        /\ current_pan_x' = r[2]
        /\ current_pan_y' = r[3]

-----------------------------------------------------------------------------
(* One call of a method by the engine's client *)

Called(name, a) == op' = name /\ arg' = a /\ UNCHANGED trip

PushUndo ==
    /\ push_undo
    /\ UNCHANGED <<keyframes, cached>>
    /\ ret' = None
    /\ Called("push_undo", 0)

Undo ==
    /\ undo
    /\ UNCHANGED cached
    /\ Called("undo", 0)

Redo ==
    /\ redo
    /\ UNCHANGED cached
    /\ Called("redo", 0)

ClearHistory ==
    /\ clear_history
    /\ UNCHANGED <<keyframes, cached>>
    /\ ret' = None
    /\ Called("clear_history", 0)

AddKeyframe(kf) ==
    /\ keyframes' = add_keyframe(keyframes, kf)
    /\ UNCHANGED <<cached, undo_stack, redo_stack>>
    /\ ret' = None
    /\ Called("add_keyframe", 0)

RemoveKeyframe(kf_id) ==
    /\ keyframes' = remove_keyframe(keyframes, kf_id)
    /\ UNCHANGED <<cached, undo_stack, redo_stack>>
    /\ ret' = None
    /\ Called("remove_keyframe", 0)

Clear ==
    /\ clear
    /\ UNCHANGED <<undo_stack, redo_stack>>
    /\ ret' = None
    /\ Called("clear", 0)

ComputeAt(time_ms) ==
    /\ ret' = compute_at(keyframes, time_ms)
    /\ UNCHANGED engine
    /\ Called("compute_at", time_ms)

Update(time_ms) ==
    /\ update(time_ms)
    /\ UNCHANGED <<keyframes, undo_stack, redo_stack>>
    /\ ret' = None
    /\ Called("update", 0)

\* ids a client can pass to remove_keyframe: one of the live list, or one
\* that no keyframe has
RemovableIds == IdsOf(keyframes) \cup {0}

-----------------------------------------------------------------------------
(* ZoomEngine.__init__ *)

InitEngine ==
    /\ keyframes = <<>>
    /\ current_zoom = DefaultZoom
    /\ current_pan_x = DefaultPan
    /\ current_pan_y = DefaultPan
    /\ undo_stack = <<>>
    /\ redo_stack = <<>>
    /\ op = "init"
    /\ arg = 0
    /\ ret = None

Init ==
    /\ InitEngine
    /\ trip = NoTrip

-----------------------------------------------------------------------------
(* Spec: the editing operations in any order, on a short history *)

Next ==
    \/ (Len(undo_stack) < MaxHist /\ PushUndo)
    \/ Undo
    \/ Redo
    \/ ClearHistory
    \/ \E kf \in SmallPool :
          Len(keyframes) < MaxKeyframes /\ kf.id \notin IdsOf(keyframes) /\ AddKeyframe(kf)
    \/ \E kf_id \in RemovableIds : RemoveKeyframe(kf_id)
    \/ Clear
    \/ \E t \in Times : Update(t)

Spec == Init /\ [][Next]_vars

(* SpecCompute: compute_at and update on every list add_keyframe and
   remove_keyframe build from the pool *)

NextCompute ==
    \/ \E kf \in Pool :
          Len(keyframes) < MaxKeyframes /\ kf.id \notin IdsOf(keyframes) /\ AddKeyframe(kf)
    \/ \E kf_id \in RemovableIds : RemoveKeyframe(kf_id)
    \/ \E t \in Times : ComputeAt(t)
    \/ \E t \in Times : Update(t)

SpecCompute == Init /\ [][NextCompute]_vars

(* SpecDepth: the history operations to the full depth MAX_UNDO.  The list
   is edited, with one keyframe, only while the history is short. *)

DepthKf == ZoomKeyframe(1, 1, KfTargets[1], 2)
ShortHistory == Len(undo_stack) + Len(redo_stack) <= MaxEditDepth

NextDepth ==
    \/ PushUndo
    \/ Undo
    \/ Redo
    \/ ClearHistory
    \/ (ShortHistory /\ DepthKf.id \notin IdsOf(keyframes) /\ AddKeyframe(DepthKf))
    \/ (ShortHistory /\ RemoveKeyframe(DepthKf.id))
    \/ (ShortHistory /\ Clear)

SpecDepth == Init /\ [][NextDepth]_vars

(* SpecRoundTrip: a client session.  Keyframes are loaded, then n edits are
   made, each a push_undo() followed by one mutation, then undo() is called n
   times, then redo() n times.  The mutations follow a repeating pattern drawn
   at the start. *)

Mutations == {"add", "remove", "clear"}
Scripts == [1..ScriptLen -> Mutations]

\* the keyframe the n-th edit adds
EditKf(n) == ZoomKeyframe(10 + n, IF n % 2 = 0 THEN 4 ELSE 1, KfTargets[1], 2)

\* the id the n-th edit removes: the first keyframe's, or one no keyframe has
EditId == IF keyframes = <<>> THEN 0 ELSE keyframes[1].id

InitRoundTrip ==
    /\ InitEngine
    /\ trip \in {[phase |-> "setup", script |-> sc, n |-> 0, k |-> 0, j |-> 0,
                  base |-> <<>>, final |-> <<>>] : sc \in Scripts}

\* main_window._on_load_done: the saved keyframes are added, without push_undo
TripLoad(kf) ==
    /\ trip.phase = "setup"
    /\ kf.id \notin IdsOf(keyframes)
    /\ keyframes' = add_keyframe(keyframes, kf)
    /\ UNCHANGED <<cached, undo_stack, redo_stack, trip>>
    /\ op' = "add_keyframe" /\ arg' = 0 /\ ret' = None

TripBegin ==
    /\ trip.phase = "setup"
    /\ trip' = [trip EXCEPT !.phase = "edit", !.base = keyframes, !.final = keyframes]
    /\ UNCHANGED <<engine, op, arg, ret>>

\* main_window._on_add_keyframe, _on_remove_keyframe, _on_auto_keyframes:
\* push_undo(), then the mutation
TripEdit ==
    LET m == trip.script[(trip.n % ScriptLen) + 1]
    IN  /\ trip.phase = "edit"
        /\ trip.n < MaxEdits
        /\ push_undo
        /\ IF m = "clear"
           THEN clear
           ELSE /\ keyframes' = IF m = "add"
                                THEN add_keyframe(keyframes, EditKf(trip.n))
                                ELSE remove_keyframe(keyframes, EditId)
                /\ UNCHANGED cached
        /\ trip' = [trip EXCEPT !.n = @ + 1, !.final = keyframes']
        /\ op' = "edit" /\ arg' = 0 /\ ret' = None

TripUndo ==
    /\ trip.phase \in {"edit", "undo"}
    /\ trip.k < trip.n
    /\ undo
    /\ UNCHANGED cached
    /\ trip' = [trip EXCEPT !.phase = "undo", !.k = @ + 1]
    /\ op' = "undo" /\ arg' = 0

TripRedo ==
    /\ \/ trip.phase = "undo" /\ trip.k = trip.n
       \/ trip.phase = "redo" /\ trip.j < trip.n
    /\ redo
    /\ UNCHANGED cached
    /\ trip' = [trip EXCEPT !.phase = "redo", !.j = @ + 1]
    /\ op' = "redo" /\ arg' = 0

NextRoundTrip ==
    \/ \E kf \in SmallPool : TripLoad(kf)
    \/ TripBegin
    \/ TripEdit
    \/ TripUndo
    \/ TripRedo

SpecRoundTrip == InitRoundTrip /\ [][NextRoundTrip]_vars

(* SpecInterleave: two edits whose steps may interleave.  Keyframes are
   loaded, then each of two edit handlers calls push_undo() and, in a later
   step, its mutation; the steps of the two handlers run in any order.  When
   no handler is between its two steps, undo() is called, up to once per
   edit made. *)

Editors == 1..2

InitInterleave ==
    /\ InitEngine
    /\ trip \in {[phase |-> "setup", script |-> sc, pc |-> [e \in Editors |-> "idle"],
                  interleaved |-> FALSE, k |-> 0, base |-> <<>>, after |-> <<>>] :
                     sc \in [Editors -> Mutations]}

\* main_window._on_load_done: the saved keyframes are added, without push_undo
InterleaveLoad(kf) ==
    /\ trip.phase = "setup"
    /\ kf.id \notin IdsOf(keyframes)
    /\ keyframes' = add_keyframe(keyframes, kf)
    /\ UNCHANGED <<cached, undo_stack, redo_stack, trip>>
    /\ op' = "add_keyframe" /\ arg' = 0 /\ ret' = None

InterleaveBegin ==
    /\ trip.phase = "setup"
    /\ trip' = [trip EXCEPT !.phase = "edit", !.base = keyframes, !.after = <<keyframes>>]
    /\ UNCHANGED <<engine, op, arg, ret>>

\* the first step of an edit handler: push_undo().  The edits interleave when
\* the other handler has called push_undo() and not yet its mutation.
EditPushUndo(e) ==
    /\ trip.phase = "edit"
    /\ trip.pc[e] = "idle"
    /\ push_undo
    /\ UNCHANGED <<keyframes, cached>>
    /\ trip' = [trip EXCEPT !.pc[e] = "pushed",
                            !.interleaved = @ \/ \E o \in Editors : trip.pc[o] = "pushed"]
    /\ op' = "push_undo" /\ arg' = 0 /\ ret' = None

\* the second step of an edit handler: the mutation
EditMutate(e) ==
    LET m == trip.script[e]
    IN  /\ trip.phase = "edit"
        /\ trip.pc[e] = "pushed"
        /\ IF m = "clear"
           THEN clear
           ELSE /\ keyframes' = IF m = "add"
                                THEN add_keyframe(keyframes, EditKf(e))
                                ELSE remove_keyframe(keyframes, EditId)
                /\ UNCHANGED cached
        /\ UNCHANGED <<undo_stack, redo_stack>>
        /\ trip' = [trip EXCEPT !.pc[e] = "done", !.after = Append(@, keyframes')]
        /\ op' = "edit" /\ arg' = 0 /\ ret' = None

\* the edits made so far
EditsMade == Len(trip.after) - 1

InterleaveUndo ==
    /\ trip.phase \in {"edit", "undo"}
    /\ \A e \in Editors : trip.pc[e] # "pushed"
    /\ trip.k < EditsMade
    /\ undo
    /\ UNCHANGED cached
    /\ trip' = [trip EXCEPT !.phase = "undo", !.k = @ + 1]
    /\ op' = "undo" /\ arg' = 0

NextInterleave ==
    \/ \E kf \in SmallPool : InterleaveLoad(kf)
    \/ InterleaveBegin
    \/ \E e \in Editors : EditPushUndo(e)
    \/ \E e \in Editors : EditMutate(e)
    \/ InterleaveUndo

SpecInterleave == InitInterleave /\ [][NextInterleave]_vars

-----------------------------------------------------------------------------
(* Claims about the history, checked under SpecRoundTrip and SpecDepth *)

\* C1 as stated: after n edits, n calls of undo() restore the list that
\* existed before the first edit, and n calls of redo() after them restore
\* the list as the last edit left it.
C1_RoundTrip ==
    /\ (trip.phase = "undo" /\ trip.k = trip.n) => keyframes = trip.base
    /\ (trip.phase = "redo" /\ trip.j = trip.n) => keyframes = trip.final

\* C1 amended: the same for n <= MAX_UNDO edits.
C1_RoundTripWithinDepth ==
    trip.n <= MAX_UNDO =>
        /\ (trip.phase = "undo" /\ trip.k = trip.n) => keyframes = trip.base
        /\ (trip.phase = "redo" /\ trip.j = trip.n) => keyframes = trip.final

\* MAX_UNDO edits undone and redone, on a list the edits have changed
C1_Witness ==
    /\ trip.phase = "redo"
    /\ trip.n = MAX_UNDO
    /\ trip.j = trip.n
    /\ trip.base # trip.final
    /\ trip.base # <<>>
    /\ keyframes = trip.final

\* C3: neither stack ever holds more than MAX_UNDO snapshots.
C3_StacksBounded ==
    /\ Len(undo_stack) <= MAX_UNDO
    /\ Len(redo_stack) <= MAX_UNDO

\* redo() has just pushed the MAX_UNDO-th snapshot onto the undo stack
C3_Witness ==
    /\ op = "redo"
    /\ ret = <<TRUE>>
    /\ Len(undo_stack) = MAX_UNDO
    /\ undo_stack[1] # undo_stack[MAX_UNDO]

-----------------------------------------------------------------------------
(* Claims about the editing operations, checked under Spec *)

Sorted(kfs) == \A i \in 1..(Len(kfs) - 1) : kfs[i].timestamp <= kfs[i + 1].timestamp

\* C2: undo() on an empty undo stack and redo() on an empty redo stack return
\* False and leave the keyframe list, the cached zoom/pan and both stacks as
\* they were; on a non-empty stack they return True.
C2_EmptyStackIsNoOp ==
    [][ /\ (op' = "undo" /\ undo_stack = <<>>) => (ret' = <<FALSE>> /\ UNCHANGED engine)
        /\ (op' = "redo" /\ redo_stack = <<>>) => (ret' = <<FALSE>> /\ UNCHANGED engine)
        /\ (op' = "undo" /\ undo_stack # <<>>) => ret' = <<TRUE>>
        /\ (op' = "redo" /\ redo_stack # <<>>) => ret' = <<TRUE>> ]_vars

\* a failed undo() on an engine that holds keyframes, redo history and a
\* cached zoom other than the default
C2_Witness ==
    /\ op = "undo"
    /\ ret = <<FALSE>>
    /\ keyframes # <<>>
    /\ redo_stack # <<>>
    /\ current_zoom # DefaultZoom

\* C4: push_undo() empties the redo stack, and from then on the redo stack
\* stays empty, so that redo() returns False and changes nothing, until an
\* undo() succeeds.
C4_PushUndoClearsRedo ==
    [][ /\ op' = "push_undo" => redo_stack' = <<>>
        /\ (redo_stack = <<>> /\ op' = "redo") => (ret' = <<FALSE>> /\ UNCHANGED engine)
        /\ (redo_stack = <<>> /\ ~(op' = "undo" /\ ret' = <<TRUE>>)) => redo_stack' = <<>>
      ]_vars

\* redo() refused although the undo stack holds snapshots
C4_Witness ==
    /\ op = "redo"
    /\ ret = <<FALSE>>
    /\ Len(undo_stack) >= 2
    /\ keyframes # <<>>

\* C5: the live keyframe list is sorted by non-decreasing timestamp.
C5_KeyframesSorted == Sorted(keyframes)

\* a list of two keyframes with different timestamps, just built by add_keyframe
C5_Witness ==
    /\ op = "add_keyframe"
    /\ Len(keyframes) = 2
    /\ keyframes[1].timestamp < keyframes[2].timestamp

\* C10: clear() empties the list and resets the cached zoom/pan to the
\* defaults, leaving both stacks alone; clear_history() empties both stacks,
\* leaving the list and the cached zoom/pan alone.
C10_ClearFrames ==
    [][ /\ op' = "clear" =>
              /\ keyframes' = <<>>
              /\ cached' = Default
              /\ UNCHANGED <<undo_stack, redo_stack>>
        /\ op' = "clear_history" =>
              /\ undo_stack' = <<>>
              /\ redo_stack' = <<>>
              /\ UNCHANGED <<keyframes, cached>> ]_vars

\* clear() has run on an engine with undo and redo history
C10_Witness ==
    /\ op = "clear"
    /\ undo_stack # <<>>
    /\ redo_stack # <<>>
    /\ \E i \in 1..Len(undo_stack) : undo_stack[i] # <<>>

-----------------------------------------------------------------------------
(* Claims about compute_at, checked under SpecCompute *)

\* kfs[i] is the keyframe compute_at(t) eases toward: the last of the list
\* whose timestamp is at most t
IsActive(kfs, i, t) ==
    /\ kfs[i].timestamp <= t
    /\ \A j \in (i + 1)..Len(kfs) : kfs[j].timestamp > t

Target(kf) == <<kf.zoom, kf.x, kf.y>>
PrevTarget(kfs, i) == IF i > 1 THEN Target(kfs[i - 1]) ELSE Default

\* C6: with active keyframe kf and predecessor prev, each component of
\* compute_at(t) lies between prev's and kf's value.
C6_NoOvershoot ==
    op = "compute_at" =>
        \A i \in 1..Len(keyframes) :
            IsActive(keyframes, i, arg) =>
                \A c \in 1..3 :
                    RBetween(ret[c], PrevTarget(keyframes, i)[c], Target(keyframes[i])[c])

\* a query half way through the transition between two keyframes with
\* different targets
C6_Witness ==
    /\ op = "compute_at"
    /\ Len(keyframes) = 2
    /\ IsActive(keyframes, 2, arg)
    /\ keyframes[2].duration > 0
    /\ arg > keyframes[2].timestamp
    /\ arg < keyframes[2].timestamp + keyframes[2].duration
    /\ \A c \in 1..3 : ret[c] # keyframes[1][IF c = 1 THEN "zoom" ELSE IF c = 2 THEN "x" ELSE "y"]
    /\ ret # Target(keyframes[2])

\* C7 as stated: whenever the list holds a keyframe kf with duration = 0,
\* compute_at(kf.timestamp) is kf's target.
C7_SnapAnyKeyframe ==
    op = "compute_at" =>
        \A i \in 1..Len(keyframes) :
            (keyframes[i].duration = 0 /\ keyframes[i].timestamp = arg) =>
                ret = Target(keyframes[i])

\* C7 amended: a keyframe kf with duration = 0 that is active at its own
\* timestamp (every keyframe behind it in the list has a greater timestamp)
\* makes compute_at(kf.timestamp) kf's target.
C7_SnapActiveKeyframe ==
    op = "compute_at" =>
        \A i \in 1..Len(keyframes) :
            ( /\ keyframes[i].duration = 0
              /\ keyframes[i].timestamp = arg
              /\ IsActive(keyframes, i, arg) ) =>
                ret = Target(keyframes[i])

\* a snap onto the second of two keyframes with different targets
C7_Witness ==
    /\ op = "compute_at"
    /\ Len(keyframes) = 2
    /\ keyframes[2].duration = 0
    /\ keyframes[2].timestamp = arg
    /\ keyframes[1].timestamp < arg
    /\ Target(keyframes[1]) # Target(keyframes[2])
    /\ ret = Target(keyframes[2])

\* C8: compute_at(t) is (1.0, 0.5, 0.5) when the list is empty or t is
\* smaller than the first keyframe's timestamp.
C8_PreHistoryDefault ==
    (op = "compute_at" /\ (keyframes = <<>> \/ arg < keyframes[1].timestamp)) =>
        ret = Default

\* a query before the first keyframe while the cache holds a zoomed state
C8_Witness ==
    /\ op = "compute_at"
    /\ keyframes # <<>>
    /\ arg < keyframes[1].timestamp
    /\ current_zoom # DefaultZoom
    /\ current_pan_x # DefaultPan
    /\ ret = Default

\* C9: for the active keyframe kf with duration d > 0 and predecessor target
\* P, compute_at(kf.timestamp) = P, and compute_at(t) = kf's target for
\* t >= kf.timestamp + d.
C9_TransitionEndpoints ==
    op = "compute_at" =>
        \A i \in 1..Len(keyframes) :
            (IsActive(keyframes, i, arg) /\ keyframes[i].duration > 0) =>
                /\ arg = keyframes[i].timestamp => ret = PrevTarget(keyframes, i)
                /\ arg >= keyframes[i].timestamp + keyframes[i].duration =>
                       ret = Target(keyframes[i])

\* the start of a transition from a keyframe's target to a different one
C9_Witness ==
    /\ op = "compute_at"
    /\ Len(keyframes) = 2
    /\ IsActive(keyframes, 2, arg)
    /\ keyframes[2].duration > 0
    /\ arg = keyframes[2].timestamp
    /\ Target(keyframes[1]) # Target(keyframes[2])
    /\ ret = Target(keyframes[1])

-----------------------------------------------------------------------------
(* activity_analyzer.py: tuning constants *)

WINDOW_MS == 500
ZOOM_HOLD_MOUSE_MS == 2000
ZOOM_HOLD_TYPING_MS == 3000
ZOOM_HOLD_CLICK_MS == 2000
TRANSITION_MS == 600
PAN_TRANSITION_MS == 400
PAN_TRANSITION_MAX_MS == 700
PAN_MERGE_GAP_MS == 3000
MAX_CHAIN_LENGTH == 4
ANTICIPATION_MS == 100
TYPING_MIN_KPS == R(1, 1)
MOUSE_STILL_PX_MS == R(1, 2)
MOUSE_TYPING_PX_MS == R(3, 1)
DECEL_MIN_RATIO == R(3, 1)
CLICK_WINDOW_MS == 3000
CLICK_MIN_COUNT == 1
WEIGHT_TYPING == R(1, 1)
WEIGHT_CLICK == R(4, 5)
WEIGHT_MOUSE == R(1, 2)
CLICK_MERGE_GAP_MS == 8000
TYPING_MERGE_GAP_MS == 6000
SPATIAL_MERGE_DIST == R(3, 20)
PAN_VIEWPORT_MARGIN == R(3, 20)

-----------------------------------------------------------------------------
(* _dampen_pan *)

RZero == R(0, 1)
ROne == R(1, 1)
RHalf == R(1, 2)
RDiv(a, b) == Norm(<<a[1] * b[2], a[2] * b[1]>>)
RAbs(a) == <<Abs(a[1]), a[2]>>

\* one axis of _dampen_pan: shift from `from` only when the target is outside
\* the effective band, then clamp into [half_v, 1 - half_v]
dampen_axis(target, from, half_v, eff_h) ==
    LET shifted == IF RLt(target, RSub(from, eff_h)) THEN RAdd(target, eff_h)
                   ELSE IF RLt(RAdd(from, eff_h), target) THEN RSub(target, eff_h)
                   ELSE from
    IN  RMax(half_v, RMin(RSub(ROne, half_v), shifted))

\* _dampen_pan without the shift toward the target
dampen_pan_no_shift(target_x, target_y, zoom, margin, from_x, from_y) ==
    IF RLe(zoom, ROne) THEN <<RHalf, RHalf>>
    ELSE LET half_v == RDiv(RHalf, zoom)
         IN  <<RMax(half_v, RMin(RSub(ROne, half_v), from_x)),
               RMax(half_v, RMin(RSub(ROne, half_v), from_y))>>

dampen_pan(target_x, target_y, zoom, margin, from_x, from_y) ==
    IF RLe(zoom, ROne) THEN <<RHalf, RHalf>>
    ELSE LET half_vw == RDiv(RHalf, zoom)
             half_vh == RDiv(RHalf, zoom)
             eff_hw == RMul(half_vw, RSub(ROne, margin))
             eff_hh == RMul(half_vh, RSub(ROne, margin))
         IN  <<dampen_axis(target_x, from_x, half_vw, eff_hw),
               dampen_axis(target_y, from_y, half_vh, eff_hh)>>

-----------------------------------------------------------------------------
(* SpecDampen: _dampen_pan applied to one drawn argument list *)

\* targets and starting centres are the points k / PanGrid of [0, 1]
PanGrid == 4

GridPoints == {R(k, PanGrid) : k \in 0..PanGrid}
Zooms == {R(1, 1), R(5, 4), R(3, 2), R(2, 1)}
Margins == {PAN_VIEWPORT_MARGIN, RZero}

DampenArgs ==
    [target_x : GridPoints, target_y : GridPoints, zoom : Zooms,
     margin : Margins, from_x : GridPoints, from_y : {RHalf, R(1, PanGrid)}]

InitDampen ==
    /\ keyframes = <<>>
    /\ current_zoom = DefaultZoom
    /\ current_pan_x = DefaultPan
    /\ current_pan_y = DefaultPan
    /\ undo_stack = <<>>
    /\ redo_stack = <<>>
    /\ trip = NoTrip
    /\ op = "init"
    /\ arg \in DampenArgs
    /\ ret = None

DampenPan ==
    /\ op = "init"
    /\ ret' = dampen_pan(arg.target_x, arg.target_y, arg.zoom, arg.margin,
                         arg.from_x, arg.from_y)
    /\ op' = "dampen_pan"
    /\ UNCHANGED <<engine, arg, trip>>

NextDampen == DampenPan

SpecDampen == InitDampen /\ [][NextDampen]_vars

\* half the viewport extent, and the same shrunk by the margin
HalfView(a) == RDiv(RHalf, a.zoom)
EffHalf(a) == RMul(HalfView(a), RSub(ROne, a.margin))
\* the target coordinate t is at least margin * half-view away from both
\* edges of the source
AwayFromEdge(t, a) ==
    /\ RLe(RMul(a.margin, HalfView(a)), t)
    /\ RLe(t, RSub(ROne, RMul(a.margin, HalfView(a))))

\* C20 as stated: for zoom > 1 the returned pan keeps the target within
\* (0.5 / zoom) * (1 - margin) of the viewport centre on each axis.
C20_TargetWithinMargin ==
    (op = "dampen_pan" /\ RLt(ROne, arg.zoom)) =>
        /\ RLe(RAbs(RSub(arg.target_x, ret[1])), EffHalf(arg))
        /\ RLe(RAbs(RSub(arg.target_y, ret[2])), EffHalf(arg))

\* C20 amended: for zoom > 1 the target stays visible, within 0.5 / zoom of
\* the pan on each axis, and within (0.5 / zoom) * (1 - margin) on every axis
\* whose target coordinate is at least margin * 0.5 / zoom away from both
\* edges of the source.
C20_TargetVisibleMarginAwayFromEdge ==
    (op = "dampen_pan" /\ RLt(ROne, arg.zoom)) =>
        /\ RLe(RAbs(RSub(arg.target_x, ret[1])), HalfView(arg))
        /\ RLe(RAbs(RSub(arg.target_y, ret[2])), HalfView(arg))
        /\ AwayFromEdge(arg.target_x, arg) =>
               RLe(RAbs(RSub(arg.target_x, ret[1])), EffHalf(arg))
        /\ AwayFromEdge(arg.target_y, arg) =>
               RLe(RAbs(RSub(arg.target_y, ret[2])), EffHalf(arg))

\* a target outside the effective band of the starting centre: the pan was
\* shifted so that the target sits exactly on the band's edge
C20_Witness ==
    /\ op = "dampen_pan"
    /\ RLt(ROne, arg.zoom)
    /\ RLt(RZero, arg.margin)
    /\ AwayFromEdge(arg.target_x, arg)
    /\ ret[1] # arg.from_x
    /\ RAbs(RSub(arg.target_x, ret[1])) = EffHalf(arg)

-----------------------------------------------------------------------------
(* analyze_activity: Python built-ins on lists of floats *)

\* a list comprehension builds the list at once
List(f) == SubSeq(f, 1, Len(f))

\* sum(...) adds from the left
RECURSIVE RSumTo(_, _)
RSumTo(s, n) == IF n = 0 THEN RZero ELSE RAdd(RSumTo(s, n - 1), s[n])
RSum(s) == RSumTo(s, Len(s))

RECURSIVE ISumTo(_, _)
ISumTo(s, n) == IF n = 0 THEN 0 ELSE ISumTo(s, n - 1) + s[n]
ISum(s) == ISumTo(s, Len(s))

\* max(...) and min(...) of a non-empty list of numbers
RMaxOf(s) == s[CHOOSE i \in 1..Len(s) : \A j \in 1..Len(s) : RLe(s[j], s[i])]
RMinOf(s) == s[CHOOSE i \in 1..Len(s) : \A j \in 1..Len(s) : RLe(s[i], s[j])]

\* max(seq, key=...): the first element whose key is the largest
ArgMax(keys) == CHOOSE i \in 1..Len(keys) :
    /\ \A j \in 1..Len(keys) : RLe(keys[j], keys[i])
    /\ \A j \in 1..(i - 1) : RLt(keys[j], keys[i])

\* sorted(..., key=...) and list.sort(key=...) are stable: element i lands
\* behind every element with a smaller key and every earlier element with an
\* equal key.  vals sorted by the parallel sequence keys, ascending:
sorted_by(vals, keys) ==
    LET n == Len(vals)
        rank == [i \in 1..n |->
                    1 + Cardinality({j \in 1..n : \/ RLt(keys[j], keys[i])
                                                  \/ (keys[j] = keys[i] /\ j < i)})]
    IN  List([p \in 1..n |-> vals[CHOOSE i \in 1..n : rank[i] = p]])

\* sort(key=..., reverse=True) keeps equal elements in their original order:
\* an ascending stable sort by the negated key
RNeg(a) == <<-a[1], a[2]>>
sorted_by_desc(vals, keys) == sorted_by(vals, [i \in 1..Len(keys) |-> RNeg(keys[i])])

\* s[:n] for n >= 0
Take(s, n) == SubSeq(s, 1, IF n < Len(s) THEN n ELSE Len(s))

\* int(a / b) truncates toward zero
IntTrunc(a, b) == IF a >= 0 THEN a \div b ELSE -((-a) \div b)

\* floor of the square root of n >= 0
RECURSIVE ISqrtIn(_, _, _)
ISqrtIn(n, lo, hi) ==
    IF lo = hi THEN lo
    ELSE LET mid == (lo + hi + 1) \div 2
         IN  IF mid * mid <= n THEN ISqrtIn(n, mid, hi) ELSE ISqrtIn(n, lo, mid - 1)
ISqrt(n) == ISqrtIn(n, 0, IF n < 46340 THEN n ELSE 46340)

\* math.sqrt(dx*dx + dy*dy) for integer pixel offsets.  The tracks of this
\* model move along one axis, where the root is the exact integer |offset|.
hypot(dx, dy) == ISqrt(dx * dx + dy * dy)

\* max(0.0, min(1.0, v))
clamp01(v) == RMax(RZero, RMin(ROne, v))

-----------------------------------------------------------------------------
(* analyze_activity, sections 1 and 2: samples and windows *)

IMax(a, b) == IF a >= b THEN a ELSE b

\* lines 139-142 (every rectangle of the model has the four keys)
mon_w(rect) == IMax(rect.width, 1)
mon_h(rect) == IMax(rect.height, 1)

\* lines 154-163: one sample [t, speed, nx, ny] per track point but the first
samples_of(mouse_track, rect) ==
    List([i \in 1..(Len(mouse_track) - 1) |->
        LET prev == mouse_track[i]
            curr == mouse_track[i + 1]
            dt == IMax(curr.timestamp - prev.timestamp, 1)
        IN  [t |-> curr.timestamp,
             speed |-> R(hypot(curr.x - prev.x, curr.y - prev.y), dt),
             nx |-> clamp01(R(curr.x - rect.left, mon_w(rect))),
             ny |-> clamp01(R(curr.y - rect.top, mon_h(rect)))]])

\* lines 168-169
n_windows_of(duration) == IMax(1, IntTrunc(duration, WINDOW_MS))

\* lines 186 and 204: t_start <= t < t_end for window wi = 0, 1, ...
in_window(t, wi) == wi * WINDOW_MS <= t /\ t < wi * WINDOW_MS + WINDOW_MS

\* lines 182-195: (center_t, avg_speed, avg_x, avg_y) of window wi = 0, 1, ...
window_speed(samples, wi) ==
    LET t_start == wi * WINDOW_MS
        t_end == t_start + WINDOW_MS
        bucket == SelectSeq(samples, LAMBDA s : in_window(s.t, wi))
        n == R(Len(bucket), 1)
        center_t == (t_start + t_end) \div 2
    IN  IF bucket = <<>>
        THEN [center_t |-> center_t, avg_speed |-> RZero, avg_x |-> RHalf, avg_y |-> RHalf]
        ELSE [center_t |-> center_t,
              avg_speed |-> RDiv(RSum([i \in 1..Len(bucket) |-> bucket[i].speed]), n),
              avg_x |-> RDiv(RSum([i \in 1..Len(bucket) |-> bucket[i].nx]), n),
              avg_y |-> RDiv(RSum([i \in 1..Len(bucket) |-> bucket[i].ny]), n)]

window_speeds_of(samples, n_windows) ==
    List([w \in 1..n_windows |-> window_speed(samples, w - 1)])

\* a WindowInfo tuple (time, score, x, y, label); the time is a rational
\* because a click peak sits at the mean of its clicks' timestamps
WindowInfo(t, score, x, y, label) ==
    [t |-> t, score |-> score, x |-> x, y |-> y, label |-> label]

\* lines 222-226: the speed of window wi = 0, 1, ... dropped by at least
\* DECEL_MIN_RATIO from the window before it
settled(window_speeds, wi) ==
    LET avg_speed == window_speeds[wi + 1].avg_speed
        prev_speed == IF wi > 0 THEN window_speeds[wi].avg_speed ELSE RZero
        decel_ratio == RDiv(prev_speed, RMax(avg_speed, R(1, 100)))
    IN  /\ wi > 0
        /\ RLt(RZero, prev_speed)
        /\ RLt(avg_speed, prev_speed)
        /\ RLe(DECEL_MIN_RATIO, decel_ratio)

\* lines 198-233: the one window record appended for window wi = 0, 1, ...
score_window(window_speeds, key_timestamps, wi) ==
    LET t_start == wi * WINDOW_MS
        t_end == t_start + WINDOW_MS
        ws == window_speeds[wi + 1]
        center_t == R(ws.center_t, 1)
        avg_speed == ws.avg_speed
        n_keys == Cardinality({k \in 1..Len(key_timestamps) :
                      in_window(key_timestamps[k], wi)})
        kps == R(n_keys * 1000, WINDOW_MS)
        mouse_is_still == RLt(avg_speed, MOUSE_STILL_PX_MS)
        mouse_slow_enough == RLt(avg_speed, MOUSE_TYPING_PX_MS)
        is_typing == mouse_slow_enough /\ RLe(TYPING_MIN_KPS, kps)
        base_score == RMul(RMin(RDiv(kps, R(10, 1)), ROne), WEIGHT_TYPING)
        prev_speed == IF wi > 0 THEN window_speeds[wi].avg_speed ELSE RZero
        decel_ratio == RDiv(prev_speed, RMax(avg_speed, R(1, 100)))
    IN  IF is_typing
        THEN WindowInfo(center_t,
                        IF mouse_is_still THEN base_score ELSE RMul(base_score, R(7, 10)),
                        ws.avg_x, ws.avg_y, "typing")
        ELSE IF settled(window_speeds, wi)
        THEN WindowInfo(center_t, RMul(RMin(RDiv(decel_ratio, R(10, 1)), ROne), WEIGHT_MOUSE),
                        ws.avg_x, ws.avg_y, "mouse")
        ELSE WindowInfo(center_t, RMul(avg_speed, R(1, 10)), ws.avg_x, ws.avg_y, "mouse")

windows_of(window_speeds, key_timestamps, n_windows) ==
    List([w \in 1..n_windows |-> score_window(window_speeds, key_timestamps, w - 1)])

-----------------------------------------------------------------------------
(* analyze_activity, section 3: peaks per signal type *)

\* the elements of s whose flag in keep is TRUE, in order
Pick(s, keep) ==
    LET kept == SelectSeq([i \in 1..Len(s) |-> i], LAMBDA i : keep[i])
    IN  List([p \in 1..Len(kept) |-> s[kept[p]]])

ScoresOf(ws) == List([i \in 1..Len(ws) |-> ws[i].score])
TimesOf(ws) == List([i \in 1..Len(ws) |-> ws[i].t])

\* lines 250-261: mouse windows at or above the threshold that are local
\* maxima among the mouse windows
mouse_peaks_of(windows) ==
    LET mouse_windows == SelectSeq(windows, LAMBDA w : w.label = "mouse")
        n == Len(mouse_windows)
        m_scores == sorted_by(ScoresOf(mouse_windows), ScoresOf(mouse_windows))
        m_median == m_scores[(n \div 2) + 1]
        m_threshold == RMax(RMul(m_median, R(2, 1)), RMul(WEIGHT_MOUSE, R(15, 100)))
        is_peak(i) ==
            /\ ~RLt(mouse_windows[i].score, m_threshold)
            /\ (i = 1 \/ RLe(mouse_windows[i - 1].score, mouse_windows[i].score))
            /\ (i = n \/ RLe(mouse_windows[i + 1].score, mouse_windows[i].score))
    IN  IF n = 0 THEN <<>>
        ELSE Pick(mouse_windows, [i \in 1..n |-> is_peak(i)])

\* lines 266-274: consecutive typing windows, at most 1.5 windows apart, form
\* a run.  The last window of the run being built is always the previous
\* typing window, so a run starts at the first window and behind every gap
\* longer than 1.5 windows.
typing_runs(typing_windows) ==
    LET n == Len(typing_windows)
        starts_run(k) ==
            \/ k = 1
            \/ ~RLe(RSub(typing_windows[k].t, typing_windows[k - 1].t), R(WINDOW_MS * 3, 2))
        starts == SelectSeq([k \in 1..n |-> k], starts_run)
    IN  List([r \in 1..Len(starts) |->
                SubSeq(typing_windows, starts[r],
                       IF r < Len(starts) THEN starts[r + 1] - 1 ELSE n)])

\* lines 276-279: the best window of each run
typing_peaks_of(windows) ==
    LET typing_windows == SelectSeq(windows, LAMBDA w : w.label = "typing")
        runs == typing_runs(typing_windows)
    IN  IF typing_windows = <<>> THEN <<>>
        ELSE List([r \in 1..Len(runs) |-> runs[r][ArgMax(ScoresOf(runs[r]))]])

\* lines 295-303: the peak of one burst of clicks
click_peak(burst, rect) ==
    LET n == Len(burst)
        cx == R(ISum([k \in 1..n |-> burst[k].x]), n)
        cy == R(ISum([k \in 1..n |-> burst[k].y]), n)
        nx == clamp01(RDiv(RSub(cx, R(rect.left, 1)), R(mon_w(rect), 1)))
        ny == clamp01(RDiv(RSub(cy, R(rect.top, 1)), R(mon_h(rect), 1)))
        center_t == R(ISum([k \in 1..n |-> burst[k].timestamp]), n)
        score == RMul(RMin(R(n, 5), ROne), WEIGHT_CLICK)
    IN  WindowInfo(center_t, score, nx, ny, "click")

\* a scan that opens a burst at every click, claimed by a burst or not
RECURSIVE click_scan_sliding(_, _, _, _)
click_scan_sliding(sorted_clicks, i, used_up_to, rect) ==
    IF i > Len(sorted_clicks) THEN <<>>
    ELSE LET n == Len(sorted_clicks)
             in_burst(j) == sorted_clicks[j].timestamp - sorted_clicks[i].timestamp
                                <= CLICK_WINDOW_MS
             j == CHOOSE j \in (i + 1)..(n + 1) :
                      /\ (j = n + 1 \/ ~in_burst(j))
                      /\ \A k \in (i + 1)..(j - 1) : in_burst(k)
             burst == SubSeq(sorted_clicks, i, j - 1)
         IN  <<click_peak(burst, rect)>>
                 \o click_scan_sliding(sorted_clicks, i + 1, used_up_to, rect)

\* lines 286-307: the greedy scan from click i (1-based) on
RECURSIVE click_scan(_, _, _, _)
click_scan(sorted_clicks, i, used_up_to, rect) ==
    IF i > Len(sorted_clicks) THEN <<>>
    ELSE LET n == Len(sorted_clicks)
             in_burst(j) == sorted_clicks[j].timestamp - sorted_clicks[i].timestamp
                                <= CLICK_WINDOW_MS
             j == CHOOSE j \in (i + 1)..(n + 1) :
                      /\ (j = n + 1 \/ ~in_burst(j))
                      /\ \A k \in (i + 1)..(j - 1) : in_burst(k)
             burst == SubSeq(sorted_clicks, i, j - 1)
         IN  IF Len(burst) >= CLICK_MIN_COUNT /\ sorted_clicks[i].timestamp > used_up_to
             THEN <<click_peak(burst, rect)>>
                  \o click_scan(sorted_clicks, j, burst[Len(burst)].timestamp, rect)
             ELSE click_scan(sorted_clicks, i + 1, used_up_to, rect)

\* lines 282-307; None and [] are both falsy and are both the empty sequence
\* here
click_peaks_of(click_events, rect) ==
    IF click_events # <<>> /\ Len(click_events) >= CLICK_MIN_COUNT
    THEN click_scan(sorted_by(click_events,
                              [k \in 1..Len(click_events) |-> R(click_events[k].timestamp, 1)]),
                    1, -1, rect)
    ELSE <<>>

\* peaks_of without the fallback to the top windows
peaks_of_no_fallback(windows, click_events, rect, max_clusters) ==
    mouse_peaks_of(windows) \o typing_peaks_of(windows) \o click_peaks_of(click_events, rect)

\* lines 247, 309-312: the peaks found, else the top windows by score
peaks_of(windows, click_events, rect, max_clusters) ==
    LET peaks == mouse_peaks_of(windows) \o typing_peaks_of(windows)
                     \o click_peaks_of(click_events, rect)
    IN  IF peaks = <<>>
        THEN Take(sorted_by_desc(windows, ScoresOf(windows)), max_clusters)
        ELSE peaks

-----------------------------------------------------------------------------
(* analyze_activity, section 4: clusters *)

RSq(a) == RMul(a, a)

\* should_merge with half the base time gap
should_merge_half_gap(p, current_cluster, min_gap_ms) ==
    \E c \in 1..Len(current_cluster) :
        LET cp == current_cluster[c]
            gap == RSub(p.t, cp.t)
            ext_gap == IF p.label = "click" THEN CLICK_MERGE_GAP_MS ELSE TYPING_MERGE_GAP_MS
        IN  \/ RLt(gap, R(min_gap_ms, 2))
            \/ /\ p.label = cp.label
               /\ p.label \in {"click", "typing"}
               /\ RLt(RAdd(RSq(RSub(p.x, cp.x)), RSq(RSub(p.y, cp.y))),
                      RSq(SPATIAL_MERGE_DIST))
               /\ RLt(gap, R(ext_gap, 1))

\* should_merge without the distance test of criterion (b)
should_merge_anywhere(p, current_cluster, min_gap_ms) ==
    \E c \in 1..Len(current_cluster) :
        LET cp == current_cluster[c]
            gap == RSub(p.t, cp.t)
            ext_gap == IF p.label = "click" THEN CLICK_MERGE_GAP_MS ELSE TYPING_MERGE_GAP_MS
        IN  \/ RLt(gap, R(min_gap_ms, 1))
            \/ /\ p.label = cp.label
               /\ p.label \in {"click", "typing"}
               /\ RLt(gap, R(ext_gap, 1))

\* lines 334-347: does peak p join the cluster being built?
should_merge(p, current_cluster, min_gap_ms) ==
    \E c \in 1..Len(current_cluster) :
        LET cp == current_cluster[c]
            gap == RSub(p.t, cp.t)
            ext_gap == IF p.label = "click" THEN CLICK_MERGE_GAP_MS ELSE TYPING_MERGE_GAP_MS
        IN  \/ RLt(gap, R(min_gap_ms, 1))
            \/ /\ p.label = cp.label
               /\ p.label \in {"click", "typing"}
               /\ RLt(RAdd(RSq(RSub(p.x, cp.x)), RSq(RSub(p.y, cp.y))),
                      RSq(SPATIAL_MERGE_DIST))
               /\ RLt(gap, R(ext_gap, 1))

\* lines 330-354: the clusters of the first n >= 1 peaks of a list sorted by
\* time
RECURSIVE clusters_upto(_, _, _)
clusters_upto(peaks, n, min_gap_ms) ==
    IF n = 1 THEN << <<peaks[1]>> >>
    ELSE LET clusters == clusters_upto(peaks, n - 1, min_gap_ms)
             current_cluster == clusters[Len(clusters)]
         IN  IF should_merge(peaks[n], current_cluster, min_gap_ms)
             THEN [clusters EXCEPT ![Len(clusters)] = Append(current_cluster, peaks[n])]
             ELSE Append(clusters, <<peaks[n]>>)

clusters_of(peaks, min_gap_ms) == clusters_upto(peaks, Len(peaks), min_gap_ms)

cluster_peak_score(c) == RMaxOf(ScoresOf(c))

\* top_clusters without the cut to max_clusters
top_clusters_uncut(clusters, max_clusters) ==
    sorted_by(clusters, [c \in 1..Len(clusters) |-> clusters[c][1].t])

\* top_clusters that keeps the earliest clusters instead of the best ones
top_clusters_earliest(clusters, max_clusters) ==
    Take(sorted_by(clusters, [c \in 1..Len(clusters) |-> clusters[c][1].t]), max_clusters)

\* lines 360-362
top_clusters(clusters, max_clusters) ==
    LET by_score == sorted_by_desc(clusters,
                        [c \in 1..Len(clusters) |-> cluster_peak_score(clusters[c])])
        kept == Take(by_score, max_clusters)
    IN  sorted_by(kept, [c \in 1..Len(kept) |-> kept[c][1].t])

-----------------------------------------------------------------------------
(* analyze_activity, section 5: cluster info, chains, keyframes *)

\* a cluster target that follows the cursor whatever follow_cursor says
raw_target_always_follows(cluster, follow_cursor) ==
    LET best == cluster[ArgMax(ScoresOf(cluster))]
        total_score == RSum(ScoresOf(cluster))
    IN  IF RLt(RZero, total_score)
        THEN <<RDiv(RSum([i \in 1..Len(cluster) |-> RMul(cluster[i].x, cluster[i].score)]),
                    total_score),
               RDiv(RSum([i \in 1..Len(cluster) |-> RMul(cluster[i].y, cluster[i].score)]),
                    total_score)>>
        ELSE <<best.x, best.y>>

\* lines 384-392: the raw pan target of a cluster
raw_target(cluster, follow_cursor) ==
    LET best == cluster[ArgMax(ScoresOf(cluster))]
        total_score == RSum(ScoresOf(cluster))
    IN  IF follow_cursor /\ RLt(RZero, total_score)
        THEN <<RDiv(RSum([i \in 1..Len(cluster) |-> RMul(cluster[i].x, cluster[i].score)]),
                    total_score),
               RDiv(RSum([i \in 1..Len(cluster) |-> RMul(cluster[i].y, cluster[i].score)]),
                    total_score)>>
        ELSE IF follow_cursor THEN <<best.x, best.y>>
        ELSE <<RHalf, RHalf>>

hold_ms_of(label) ==
    IF label = "typing" THEN ZOOM_HOLD_TYPING_MS
    ELSE IF label = "click" THEN ZOOM_HOLD_CLICK_MS
    ELSE ZOOM_HOLD_MOUSE_MS

reason_of(label) ==
    IF label = "typing" THEN "Typing activity detected"
    ELSE IF label = "click" THEN "Click cluster detected"
    ELSE "Cursor settled here"

\* f"Pan to: {reason.lower()}" and f"Zoom out after: {reason.lower()}"
pan_reason(reason) ==
    CASE reason = "Typing activity detected" -> "Pan to: typing activity detected"
      [] reason = "Click cluster detected" -> "Pan to: click cluster detected"
      [] reason = "Cursor settled here" -> "Pan to: cursor settled here"

zoom_out_reason(reason) ==
    CASE reason = "Typing activity detected" -> "Zoom out after: typing activity detected"
      [] reason = "Click cluster detected" -> "Zoom out after: click cluster detected"
      [] reason = "Cursor settled here" -> "Zoom out after: cursor settled here"

\* lines 379-427
cluster_info_of(cluster, zoom_level, follow_cursor) ==
    LET best == cluster[ArgMax(ScoresOf(cluster))]
        cluster_start == RMinOf(TimesOf(cluster))
        cluster_end == RMaxOf(TimesOf(cluster))
        raw == raw_target(cluster, follow_cursor)
        pan == dampen_pan(raw[1], raw[2], zoom_level, PAN_VIEWPORT_MARGIN, RHalf, RHalf)
    IN  [start |-> cluster_start,
         end |-> cluster_end,
         zoom_in_time |-> RMax(RZero, RSub(cluster_start, R(TRANSITION_MS + ANTICIPATION_MS, 1))),
         pan_x |-> pan[1], pan_y |-> pan[2],
         raw_x |-> raw[1], raw_y |-> raw[2],
         label |-> best.label,
         hold_ms |-> hold_ms_of(best.label),
         reason |-> reason_of(best.label)]

\* chains_of without the limit of MAX_CHAIN_LENGTH clusters to a chain
RECURSIVE chains_of_any_length(_, _)
chains_of_any_length(cluster_info, n) ==
    IF n = 1 THEN << <<1>> >>
    ELSE LET chains == chains_of_any_length(cluster_info, n - 1)
             current_chain == chains[Len(chains)]
             prev_ci == cluster_info[current_chain[Len(current_chain)]]
             curr_ci == cluster_info[n]
             prev_end_with_hold == RAdd(prev_ci.end, R(prev_ci.hold_ms, 1))
             gap == RSub(curr_ci.start, prev_end_with_hold)
         IN  IF RLt(gap, R(PAN_MERGE_GAP_MS, 1))
             THEN [chains EXCEPT ![Len(chains)] = Append(current_chain, n)]
             ELSE Append(chains, <<n>>)

\* lines 434-450: chains of indices into cluster_info, for n >= 1 clusters
RECURSIVE chains_of(_, _)
chains_of(cluster_info, n) ==
    IF n = 1 THEN << <<1>> >>
    ELSE LET chains == chains_of(cluster_info, n - 1)
             current_chain == chains[Len(chains)]
             prev_ci == cluster_info[current_chain[Len(current_chain)]]
             curr_ci == cluster_info[n]
             prev_end_with_hold == RAdd(prev_ci.end, R(prev_ci.hold_ms, 1))
             gap == RSub(curr_ci.start, prev_end_with_hold)
         IN  IF RLt(gap, R(PAN_MERGE_GAP_MS, 1)) /\ Len(current_chain) < MAX_CHAIN_LENGTH
             THEN [chains EXCEPT ![Len(chains)] = Append(current_chain, n)]
             ELSE Append(chains, <<n>>)

\* ZoomKeyframe.create as the analyzer calls it; the fresh uuid is left out
create(timestamp, zoom, x, y, duration, reason) ==
    [timestamp |-> timestamp, zoom |-> zoom, x |-> x, y |-> y,
     duration |-> duration, reason |-> reason]

\* int(q * k) for q >= 0: floor(q[1] * k / q[2]), dividing out the common
\* factor of k and q[2] first
FloorMul(q, k) ==
    LET g == GCD(k, q[2]) IN (q[1] * (k \div g)) \div (q[2] \div g)

\* lines 489-495: int(sqrt(dx*dx + dy*dy) * 1200) is the floor of the square
\* root of (dx*dx + dy*dy) * 1200 * 1200
pan_duration(dx, dy) ==
    LET scaled == ISqrt(FloorMul(RAdd(RSq(dx), RSq(dy)), 1200 * 1200))
        at_least == IF scaled > PAN_TRANSITION_MS THEN scaled ELSE PAN_TRANSITION_MS
    IN  IF at_least < PAN_TRANSITION_MAX_MS THEN at_least ELSE PAN_TRANSITION_MAX_MS

\* lines 475-516: the pan keyframes of clusters chain[i..] of a chain
RECURSIVE pans_of(_, _, _, _, _, _, _)
pans_of(cluster_info, chain, i, prev_pan_x, prev_pan_y, zoom_in_time, zoom_level) ==
    IF i > Len(chain) THEN <<>>
    ELSE LET prev_ci == cluster_info[chain[i - 1]]
             curr_ci == cluster_info[chain[i]]
             curr_pan == dampen_pan(curr_ci.raw_x, curr_ci.raw_y, zoom_level,
                                    PAN_VIEWPORT_MARGIN, prev_pan_x, prev_pan_y)
             pan_dur == pan_duration(RSub(curr_pan[1], prev_pan_x),
                                     RSub(curr_pan[2], prev_pan_y))
             desired_arrive == RSub(curr_ci.start, R(ANTICIPATION_MS, 1))
             pan_time == RMax(RAdd(zoom_in_time, R(TRANSITION_MS, 1)),
                              RMax(prev_ci.end, RSub(desired_arrive, R(pan_dur, 1))))
         IN  <<create(pan_time, zoom_level, curr_pan[1], curr_pan[2], pan_dur,
                      pan_reason(curr_ci.reason))>>
             \o pans_of(cluster_info, chain, i + 1, curr_pan[1], curr_pan[2],
                        zoom_in_time, zoom_level)

\* lines 453-533: zoom-in, pans and zoom-out of one chain
chain_keyframes(cluster_info, chain, zoom_level, duration) ==
    LET first_ci == cluster_info[chain[1]]
        last_ci == cluster_info[chain[Len(chain)]]
        zoom_out_time == RMin(RAdd(last_ci.end, R(last_ci.hold_ms, 1)), R(duration, 1))
    IN  <<create(first_ci.zoom_in_time, zoom_level, first_ci.pan_x, first_ci.pan_y,
                 TRANSITION_MS, first_ci.reason)>>
        \o pans_of(cluster_info, chain, 2, first_ci.pan_x, first_ci.pan_y,
                   first_ci.zoom_in_time, zoom_level)
        \o <<create(zoom_out_time, ROne, RHalf, RHalf, TRANSITION_MS * 2,
                    zoom_out_reason(last_ci.reason))>>

RECURSIVE ConcatTo(_, _)
ConcatTo(ss, n) == IF n = 0 THEN <<>> ELSE ConcatTo(ss, n - 1) \o ss[n]
Concat(ss) == ConcatTo(ss, Len(ss))

\* the two outcomes of a call: a returned list, or a raised exception
Returned(kfs) == [raised |-> "", value |-> kfs]
Raised(exc) == [raised |-> exc, value |-> <<>>]

\* analyze_activity past the gate (lines 139-536), one operator per stage, each
\* handing its result to the next: the names are the function's locals.
\* lines 453-536: the keyframes of every chain, sorted by timestamp
with_chains(a, duration, cluster_info, chains) ==
    LET keyframes_out == Concat([c \in 1..Len(chains) |->
                            chain_keyframes(cluster_info, chains[c], a.zoom_level, duration)])
    IN  Returned(sorted_by(keyframes_out,
                           [k \in 1..Len(keyframes_out) |-> keyframes_out[k].timestamp]))

\* lines 434-450; no cluster means no chain and no keyframe
with_cluster_info(a, duration, cluster_info) ==
    IF cluster_info = <<>> THEN Returned(<<>>)
    ELSE with_chains(a, duration, cluster_info,
                     chains_of(cluster_info, Len(cluster_info)))

\* lines 378-427
with_clusters(a, duration, clusters) ==
    with_cluster_info(a, duration,
        List([c \in 1..Len(clusters) |->
                cluster_info_of(clusters[c], a.zoom_level, a.follow_cursor)]))

\* lines 329-362; line 331 reads peaks[0]
with_peaks(a, duration, found) ==
    LET peaks == sorted_by(found, TimesOf(found))
    IN  IF peaks = <<>> THEN Raised("IndexError")
        ELSE with_clusters(a, duration,
                top_clusters(clusters_of(peaks, a.min_gap_ms), a.max_clusters))

\* lines 235-312
with_windows(a, duration, windows) ==
    IF windows = <<>> THEN Returned(<<>>)
    ELSE with_peaks(a, duration,
            peaks_of(windows, a.click_events, a.monitor_rect, a.max_clusters))

\* lines 165-233
with_samples(a, samples) ==
    IF samples = <<>> THEN Returned(<<>>)
    ELSE LET duration == samples[Len(samples)].t
             n_windows == n_windows_of(duration)
             key_timestamps == List([k \in 1..Len(a.key_events) |-> a.key_events[k].timestamp])
         IN  with_windows(a, duration,
                 windows_of(window_speeds_of(samples, n_windows), key_timestamps, n_windows))

pipeline(a) == with_samples(a, samples_of(a.mouse_track, a.monitor_rect))

\* analyze_activity without the gate on the track's length
analyze_activity_ungated(a) == pipeline(a)

\* analyze_activity(mouse_track, monitor_rect, key_events, click_events,
\* max_clusters, zoom_level, follow_cursor, min_gap_ms), a being the record of
\* its arguments
analyze_activity(a) ==
    IF Len(a.mouse_track) < 10 THEN Returned(<<>>) ELSE pipeline(a)

-----------------------------------------------------------------------------
(* SpecAnalyze: analyze_activity applied to one drawn argument list *)

\* candidate clicks of a session: click k falls at 1000 + 3500 * (k - 1) ms
MaxClicks == 5
\* a typing burst spans at most this many 500 ms windows
MaxBurstWindows == 2

MousePosition(x, y, timestamp) == [x |-> x, y |-> y, timestamp |-> timestamp]
KeyEvent(timestamp) == [timestamp |-> timestamp]
ClickEvent(x, y, timestamp) == [x |-> x, y |-> y, timestamp |-> timestamp]

\* a 20 x 20 pixel monitor, and a rectangle without extent
MONITOR == [left |-> 0, top |-> 0, width |-> 20, height |-> 20]
EmptyRect == [left |-> 0, top |-> 0, width |-> 0, height |-> 0]

\* tests' _make_track: a stationary track of n samples, one every interval ms
make_track(n, interval, x, y) ==
    [i \in 1..n |-> MousePosition(x, y, (i - 1) * interval)]

\* tests' _make_settlement_track in small: the cursor rests, crosses the
\* monitor between 1500 and 2500 ms, then rests again
settlement_track ==
    [i \in 1..12 |->
        MousePosition(IF i <= 4 THEN 2 ELSE IF i = 5 THEN 10 ELSE 18, 10, (i - 1) * 500)]

\* where click k lands: spots at least 0.15 of the monitor apart, but for the
\* last two
ClickSpot(k) ==
    CASE k % 6 = 1 -> <<2, 2>>
      [] k % 6 = 2 -> <<18, 2>>
      [] k % 6 = 3 -> <<2, 18>>
      [] k % 6 = 4 -> <<18, 18>>
      [] k % 6 = 5 -> <<10, 10>>
      [] k % 6 = 0 -> <<11, 10>>

Click(k) == ClickEvent(ClickSpot(k)[1], ClickSpot(k)[2], 1000 + 3500 * (k - 1))

\* the clicks of the set ks, in time order
ClicksOf(ks) ==
    LET all == [k \in 1..MaxClicks |-> Click(k)]
    IN  SelectSeq(all, LAMBDA c : \E k \in ks : c = Click(k))

ClickLists ==
    {ClicksOf(ks) : ks \in SUBSET (1..MaxClicks)}
        \cup {<<Click(2), Click(1)>>}

\* a typing burst from time T on: counts[w] keys in its w-th half second, 40 ms
\* apart
Burst(T, counts) ==
    LET keys_of(w) == [j \in 1..counts[w] |-> KeyEvent(T + WINDOW_MS * (w - 1) + 40 * (j - 1))]
    IN  Concat([w \in 1..Len(counts) |-> keys_of(w)])

BurstProfiles == UNION {[1..n -> {1, 5}] : n \in 1..MaxBurstWindows}
BurstStarts == {0, 2000, 2300}
Bursts == {Burst(T, counts) : T \in BurstStarts, counts \in BurstProfiles}

\* editor_panel.SENSITIVITY_PRESETS as (max_clusters, min_gap_ms), and the
\* smallest cluster counts
Presets == {<<3, 6000>>, <<6, 4000>>, <<10, 2500>>, <<0, 4000>>, <<1, 4000>>}
\* editor_panel.ZOOM_DEPTHS
ZoomLevels == {R(5, 4), R(3, 2), R(2, 1), R(5, 2)}

Args(track, rect, keys, clicks, preset, zoom, follow) ==
    [mouse_track |-> track, monitor_rect |-> rect, key_events |-> keys,
     click_events |-> clicks, max_clusters |-> preset[1], zoom_level |-> zoom,
     follow_cursor |-> follow, min_gap_ms |-> preset[2]]

\* tracks of fewer than 10 samples, with and without other input
ShortTrackArgs ==
    {Args(make_track(n, 100, 10, 10), rect, keys, clicks, <<6, 4000>>, R(3, 2), TRUE) :
        n \in 0..9, rect \in {MONITOR, EmptyRect},
        keys \in {<<>>, Burst(0, <<5>>)}, clicks \in {<<>>, <<Click(1)>>, ClicksOf({1, 2})}}

\* an 18 s session with a resting cursor: any of the clicks, with or without
\* a typing burst at 11.5 s
SessionArgs ==
    {Args(make_track(10, 2000, 10, 10), MONITOR, keys, clicks, preset, R(3, 2), TRUE) :
        keys \in {<<>>, Burst(11500, <<5>>)}, clicks \in ClickLists, preset \in Presets}
        \cup
    {Args(make_track(10, 2000, 10, 10), MONITOR, keys, clicks, <<10, 2500>>, R(2, 1), FALSE) :
        keys \in {<<>>, Burst(11500, <<5>>)}, clicks \in ClickLists}

\* the same session with nothing but one typing burst
TypingArgs ==
    {Args(make_track(10, 2000, 10, 10), MONITOR, keys, <<>>, <<6, 4000>>, zoom, TRUE) :
        keys \in Bursts, zoom \in ZoomLevels}

\* recordings of under a second, and a cursor that settles
OtherArgs ==
    {Args(track, rect, keys, clicks, preset, R(2, 1), TRUE) :
        track \in {make_track(10, 100, 10, 10), settlement_track},
        rect \in {MONITOR, EmptyRect},
        keys \in {<<>>, Burst(0, <<1>>)}, clicks \in {<<>>, <<Click(1)>>, <<Click(2)>>},
        preset \in Presets \cup {<<6, 250>>}}

AnalyzeArgs == ShortTrackArgs \cup SessionArgs \cup TypingArgs \cup OtherArgs

InitAnalyze ==
    /\ keyframes = <<>>
    /\ current_zoom = DefaultZoom
    /\ current_pan_x = DefaultPan
    /\ current_pan_y = DefaultPan
    /\ undo_stack = <<>>
    /\ redo_stack = <<>>
    /\ trip = NoTrip
    /\ op = "init"
    /\ arg \in AnalyzeArgs
    /\ ret = None

AnalyzeActivity ==
    /\ op = "init"
    /\ ret' = <<analyze_activity(arg)>>
    /\ op' = "analyze_activity"
    /\ UNCHANGED <<engine, arg, trip>>

NextAnalyze == AnalyzeActivity

SpecAnalyze == InitAnalyze /\ [][NextAnalyze]_vars

-----------------------------------------------------------------------------
(* analyze_activity: properties of the returned keyframe list *)

Done == op = "analyze_activity"
Outcome == ret[1]
Output == ret[1].value

Reasons == {"Typing activity detected", "Click cluster detected", "Cursor settled here"}
IsZoomIn(kf) == RLt(R(101, 100), kf.zoom)
IsZoomOut(kf) == RLe(kf.zoom, R(101, 100))
IsPan(kf) == kf.reason \in {pan_reason(r) : r \in Reasons}
MentionsClick(kf) ==
    kf.reason \in {"Click cluster detected", pan_reason("Click cluster detected"),
                   zoom_out_reason("Click cluster detected")}
\* the zoom-in keyframes that open a zoom section
Openings(kfs) == {i \in 1..Len(kfs) : IsZoomIn(kfs[i]) /\ ~IsPan(kfs[i])}
Completion(kf) == RAdd(kf.timestamp, R(kf.duration, 1))

\* C11: analyze_activity with fewer than 10 mouse samples returns the empty
\* list, whatever the key events, click events, monitor rectangle and
\* configuration are.
C11_TooFewSamplesReturnEmpty ==
    (Done /\ Len(arg.mouse_track) < 10) => Outcome = Returned(<<>>)

C11_Witness ==
    /\ Done
    /\ Len(arg.mouse_track) = 9
    /\ arg.click_events # <<>>
    /\ arg.key_events # <<>>
    /\ arg.monitor_rect = EmptyRect
    /\ Outcome = Returned(<<>>)

\* C12: analyze_activity is total: for every well-typed input, max_clusters = 0
\* and uniform data included, it returns a list and raises no exception.
C12_NeverRaises ==
    Done => Outcome.raised = ""

\* C13: in the returned list every keyframe with zoom > 1.01 is followed later
\* in the list by a keyframe with zoom <= 1.01 (no dangling zoom-in or pan).
C13_EveryZoomInIsClosed ==
    Done => \A i \in 1..Len(Output) :
                IsZoomIn(Output[i]) =>
                    \E j \in (i + 1)..Len(Output) : IsZoomOut(Output[j])

\* C14: the returned list holds at most max_clusters zoom-in keyframes that
\* open a zoom section (zoom > 1.01 and not a "Pan to:" keyframe).
C14_AtMostMaxClustersOpenings ==
    Done => Cardinality(Openings(Output)) <= arg.max_clusters

C14_Witness ==
    /\ Done
    /\ arg.max_clusters = 1
    /\ arg.click_events = ClicksOf({1, 4})
    /\ arg.key_events # <<>>
    /\ Cardinality(Openings(Output)) = 1

\* a recording whose only activity is one unbroken typing burst, mouse still
OnlyTypingBurst(a) ==
    /\ Len(a.mouse_track) >= 10
    /\ \A i \in 1..Len(a.mouse_track) :
          /\ a.mouse_track[i].x = a.mouse_track[1].x
          /\ a.mouse_track[i].y = a.mouse_track[1].y
    /\ a.click_events = <<>>
    /\ a.key_events # <<>>
    /\ \A k \in 1..(Len(a.key_events) - 1) :
          /\ a.key_events[k].timestamp <= a.key_events[k + 1].timestamp
          /\ a.key_events[k + 1].timestamp - a.key_events[k].timestamp <= WINDOW_MS
    /\ a.key_events[Len(a.key_events)].timestamp
          <= a.mouse_track[Len(a.mouse_track)].timestamp

\* C15: for a single isolated typing burst starting at T (mouse still) every
\* zoom-in keyframe completes by T, up to one WINDOW_MS of tolerance:
\* timestamp + duration <= T + WINDOW_MS.
C15_ZoomInCompletesBeforeTyping ==
    (Done /\ OnlyTypingBurst(arg)) =>
        \A i \in 1..Len(Output) :
            IsZoomIn(Output[i]) =>
                RLe(Completion(Output[i]),
                    R(arg.key_events[1].timestamp + WINDOW_MS, 1))

\* C16: when click_events holds exactly one click, no returned keyframe has a
\* reason that mentions "click".
C16_SingleClickFormsNoCluster ==
    (Done /\ Len(arg.click_events) = 1) =>
        \A i \in 1..Len(Output) : ~MentionsClick(Output[i])

\* C17: with follow_cursor = False every returned keyframe (zoom-in, chained
\* pan and zoom-out) has x = 0.5 and y = 0.5.
C17_NoFollowKeepsCentre ==
    (Done /\ ~arg.follow_cursor) =>
        \A i \in 1..Len(Output) : Output[i].x = RHalf /\ Output[i].y = RHalf

C17_Witness ==
    /\ Done
    /\ ~arg.follow_cursor
    /\ Len(arg.click_events) >= 2
    /\ \E i \in 1..Len(Output) : IsPan(Output[i])
    /\ \E i \in 1..Len(Output) : IsZoomOut(Output[i])
    /\ \A i \in 1..Len(Output) : Output[i].x = RHalf /\ Output[i].y = RHalf

\* C18: whenever a zoom-out keyframe is immediately followed by a zoom-in
\* keyframe, the zoom-out has completed before the zoom-in starts:
\* out.timestamp + out.duration <= in.timestamp + 1.
C18_ZoomOutCompletesBeforeNextZoomIn ==
    Done => \A i \in 1..(Len(Output) - 1) :
                (IsZoomOut(Output[i]) /\ IsZoomIn(Output[i + 1])) =>
                    RLe(Completion(Output[i]),
                        RAdd(Output[i + 1].timestamp, ROne))

\* C19: every zoom-out keyframe of the returned list is preceded by a keyframe
\* with zoom > 1.01 since the previous zoom-out (or since the start of the
\* list): that is, the keyframe just before a zoom-out is zoomed in.
C19_ZoomOutClosesAnOpenSection ==
    Done => \A i \in 1..Len(Output) :
                IsZoomOut(Output[i]) => (i > 1 /\ IsZoomIn(Output[i - 1]))

-----------------------------------------------------------------------------
(* analyze_activity with its local variables: the same stages as pipeline,  *)
(* each recording what it computed.  A local the function never reached is  *)
(* left empty.                                                              *)

NoLocals ==
    [samples |-> <<>>, window_speeds |-> <<>>, windows |-> <<>>,
     mouse_peaks |-> <<>>, click_peaks |-> <<>>, peaks |-> <<>>,
     all_clusters |-> <<>>, clusters |-> <<>>, cluster_info |-> <<>>,
     chains |-> <<>>, result |-> Returned(<<>>)]

\* lines 453-536
locals_chains(a, l, duration, chains) ==
    [l EXCEPT !.chains = chains,
              !.result = with_chains(a, duration, l.cluster_info, chains)]

\* lines 434-450
locals_cluster_info(a, l, duration, cluster_info) ==
    IF cluster_info = <<>> THEN l
    ELSE locals_chains(a, [l EXCEPT !.cluster_info = cluster_info], duration,
                       chains_of(cluster_info, Len(cluster_info)))

\* lines 360-427: the clusters kept, then their cluster_info
locals_clusters(a, l, duration, clusters) ==
    locals_cluster_info(a, [l EXCEPT !.clusters = clusters], duration,
        List([c \in 1..Len(clusters) |->
                cluster_info_of(clusters[c], a.zoom_level, a.follow_cursor)]))

\* lines 330-362: every cluster built, then the top max_clusters of them
locals_all_clusters(a, l, duration, all_clusters) ==
    locals_clusters(a, [l EXCEPT !.all_clusters = all_clusters], duration,
                    top_clusters(all_clusters, a.max_clusters))

\* lines 329-331
locals_peaks(a, l, duration, peaks) ==
    IF peaks = <<>> THEN [l EXCEPT !.result = Raised("IndexError")]
    ELSE locals_all_clusters(a, [l EXCEPT !.peaks = peaks], duration,
                             clusters_of(peaks, a.min_gap_ms))

\* lines 309-329
locals_found(a, l, duration, found) ==
    locals_peaks(a, l, duration, sorted_by(found, TimesOf(found)))

\* lines 235-312
locals_windows(a, l, duration, windows) ==
    IF windows = <<>> THEN l
    ELSE locals_found(a,
            [l EXCEPT !.windows = windows,
                      !.mouse_peaks = mouse_peaks_of(windows),
                      !.click_peaks = click_peaks_of(a.click_events, a.monitor_rect)],
            duration,
            peaks_of(windows, a.click_events, a.monitor_rect, a.max_clusters))

\* lines 181-233
locals_window_speeds(a, l, duration, n_windows, window_speeds) ==
    locals_windows(a, [l EXCEPT !.window_speeds = window_speeds], duration,
        windows_of(window_speeds,
                   List([k \in 1..Len(a.key_events) |-> a.key_events[k].timestamp]),
                   n_windows))

\* lines 165-195
locals_samples(a, samples) ==
    IF samples = <<>> THEN NoLocals
    ELSE LET duration == samples[Len(samples)].t
         IN  locals_window_speeds(a, [NoLocals EXCEPT !.samples = samples], duration,
                 n_windows_of(duration),
                 window_speeds_of(samples, n_windows_of(duration)))

\* lines 136-163
analyze_locals(a) ==
    IF Len(a.mouse_track) < 10 THEN NoLocals
    ELSE locals_samples(a, samples_of(a.mouse_track, a.monitor_rect))

-----------------------------------------------------------------------------
(* SpecLocals: analyze_activity with its locals, applied to one drawn       *)
(* argument list                                                            *)

\* a 4000 x 4000 pixel monitor, for tracks whose speed matters
WIDE_MONITOR == [left |-> 0, top |-> 0, width |-> 4000, height |-> 4000]

\* where the cursor may stop on the wide monitor
Stops == {0, 1000, 2000, 4000}

\* a track of 12 samples 500 ms apart: the cursor rests at the left edge, is
\* seen at three stops in a row, and rests at the last of them
moving_track(stops) ==
    [i \in 1..12 |->
        MousePosition(IF i <= 3 THEN 0 ELSE IF i <= 6 THEN stops[i - 3] ELSE stops[3],
                      2000, (i - 1) * 500)]

\* clicks 1.5 s apart, so that several fall within CLICK_WINDOW_MS of one
QuickClick(k) == ClickEvent(ClickSpot(k)[1], ClickSpot(k)[2], 1000 + 1500 * (k - 1))

QuickClicksOf(ks) ==
    LET all == [k \in 1..MaxClicks |-> QuickClick(k)]
    IN  SelectSeq(all, LAMBDA c : \E k \in ks : c = QuickClick(k))

\* the 18 s session of SessionArgs under the presets, with the locals kept
SessionLocalsArgs ==
    {Args(make_track(10, 2000, 10, 10), MONITOR, <<>>, clicks, preset, R(3, 2), TRUE) :
        clicks \in ClickLists, preset \in {<<3, 6000>>, <<6, 4000>>, <<10, 2500>>}}
        \cup
    {Args(make_track(10, 2000, 10, 10), MONITOR, Burst(11500, <<5>>), clicks, preset, R(3, 2), TRUE) :
        clicks \in ClickLists, preset \in {<<3, 6000>>, <<1, 4000>>}}

\* the same session with bursts of clicks
QuickClickArgs ==
    {Args(make_track(10, 2000, 10, 10), MONITOR, <<>>, clicks, preset, R(3, 2), TRUE) :
        preset \in {<<6, 4000>>, <<0, 4000>>},
        clicks \in {QuickClicksOf(ks) : ks \in SUBSET (1..MaxClicks)}
                       \cup {<<QuickClick(4), QuickClick(3), QuickClick(1), QuickClick(2)>>,
                             <<Click(1), Click(2), ClickEvent(2, 2, 8600)>>}}

\* a cursor that moves fast, with and without a key press on the way
MovingArgs ==
    {Args(moving_track(stops), WIDE_MONITOR, keys, <<>>, <<6, 4000>>, R(3, 2), TRUE) :
        stops \in [1..3 -> Stops], keys \in {<<>>, Burst(2000, <<1>>)}}

\* key presses up to the last mouse sample
LateKeyArgs ==
    {Args(make_track(10, 100, 10, 10), MONITOR, Burst(T, <<1>>), <<>>, <<6, 4000>>, R(3, 2), TRUE) :
        T \in {0, 600, 900}}
        \cup
    {Args(make_track(10, 2000, 10, 10), MONITOR, Burst(T, <<1>>), <<>>, <<6, 4000>>, R(3, 2), TRUE) :
        T \in {17000, 18000}}
        \cup
    {Args(make_track(10, 1100, 10, 10), MONITOR, Burst(T, <<5>>), <<>>, <<6, 4000>>, R(3, 2), TRUE) :
        T \in {9000, 9550}}

LocalsArgs ==
    ShortTrackArgs \cup SessionLocalsArgs \cup QuickClickArgs \cup MovingArgs \cup LateKeyArgs

InitLocals ==
    /\ keyframes = <<>>
    /\ current_zoom = DefaultZoom
    /\ current_pan_x = DefaultPan
    /\ current_pan_y = DefaultPan
    /\ undo_stack = <<>>
    /\ redo_stack = <<>>
    /\ trip = NoTrip
    /\ op = "init"
    /\ arg \in LocalsArgs
    /\ ret = None

AnalyzeLocals ==
    /\ op = "init"
    /\ ret' = <<analyze_locals(arg)>>
    /\ op' = "analyze_activity"
    /\ UNCHANGED <<engine, arg, trip>>

NextLocals == AnalyzeLocals

SpecLocals == InitLocals /\ [][NextLocals]_vars

Locals == ret[1]

-----------------------------------------------------------------------------
(* Claims about the clusters, the click bursts, the chains and the windows  *)

\* the time between the first and the last peak of a cluster
Span(cluster) == RSub(cluster[Len(cluster)].t, cluster[1].t)

\* C21: a chain of peaks each less than min_gap_ms after the one before it
\* cannot grow a cluster without bound: the time between a cluster's first
\* and last peak stays below the merge window, min_gap_ms or the extended
\* gap of 8000 ms, whichever is larger.
C21_ClusterSpanWithinMergeWindow ==
    Done =>
        \A c \in 1..Len(Locals.all_clusters) :
            RLt(Span(Locals.all_clusters[c]),
                R(IMax(arg.min_gap_ms, CLICK_MERGE_GAP_MS), 1))

\* the cluster that holds the n-th peak: the clusters are consecutive runs of
\* the peaks
ClusterOf(n) ==
    LET cs == Locals.all_clusters
        before(c) == ISum([k \in 1..(c - 1) |-> Len(cs[k])])
    IN  CHOOSE c \in 1..Len(cs) : before(c) < n /\ n <= before(c) + Len(cs[c])

\* the two peaks are at least SPATIAL_MERGE_DIST apart
FarApart(p, q) ==
    RLe(RSq(SPATIAL_MERGE_DIST), RAdd(RSq(RSub(p.x, q.x)), RSq(RSub(p.y, q.y))))

PeakGap(n) == RSub(Locals.peaks[n].t, Locals.peaks[n - 1].t)

WithinMinGap(n) == RLt(PeakGap(n), R(arg.min_gap_ms, 1))

\* the n-th peak is far from every peak of the cluster of the peak before it
FarFromCluster(n) ==
    \A q \in 1..(n - 1) :
        ClusterOf(q) = ClusterOf(n - 1) => FarApart(Locals.peaks[n], Locals.peaks[q])

AdjacentPeaks == IF Done THEN 2..Len(Locals.peaks) ELSE {}

\* C22, as stated: two time-adjacent peaks at least 0.15 apart are placed in
\* separate clusters, even when their gap is below min_gap_ms.
C22_FarApartPeaksAreSplit ==
    \A n \in AdjacentPeaks :
        FarApart(Locals.peaks[n], Locals.peaks[n - 1]) => ClusterOf(n) # ClusterOf(n - 1)

\* C22, amended: two time-adjacent peaks closer in time than min_gap_ms share
\* a cluster whatever their distance; a peak at least min_gap_ms after the
\* peak before it, and at least 0.15 away from every peak of that peak's
\* cluster, starts a new cluster.
C22_FarApartPeaksSplitOutsideMinGap ==
    \A n \in AdjacentPeaks :
        /\ WithinMinGap(n) => ClusterOf(n) = ClusterOf(n - 1)
        /\ (~WithinMinGap(n) /\ FarFromCluster(n)) => ClusterOf(n) # ClusterOf(n - 1)

\* far-apart peaks merged within min_gap_ms and far-apart peaks split after
\* it, in one run
C22_Witness ==
    /\ \E n \in AdjacentPeaks :
          /\ FarApart(Locals.peaks[n], Locals.peaks[n - 1])
          /\ WithinMinGap(n)
          /\ ClusterOf(n) = ClusterOf(n - 1)
    /\ \E n \in AdjacentPeaks :
          /\ FarFromCluster(n)
          /\ ~WithinMinGap(n)
          /\ RLt(PeakGap(n), R(CLICK_MERGE_GAP_MS, 1))
          /\ Locals.peaks[n].label = "click"
          /\ Locals.peaks[n - 1].label = "click"
          /\ ClusterOf(n) # ClusterOf(n - 1)

Kept == {Locals.clusters[c] : c \in 1..Len(Locals.clusters)}

Dropped == {Locals.all_clusters[c] : c \in 1..Len(Locals.all_clusters)} \ Kept

\* C23: exactly min(max_clusters, number of clusters) clusters are kept, no
\* dropped cluster has a strictly higher maximum peak score than a kept one,
\* and the kept clusters are in the order of their first peaks, each ending
\* before the next one starts.
C23_BestClustersKeptInTimeOrder ==
    Done =>
        /\ Len(Locals.clusters) =
               IF arg.max_clusters <= Len(Locals.all_clusters)
               THEN arg.max_clusters ELSE Len(Locals.all_clusters)
        /\ Cardinality(Kept) = Len(Locals.clusters)
        /\ \A c \in 1..Len(Locals.clusters) :
              \E k \in 1..Len(Locals.all_clusters) : Locals.all_clusters[k] = Locals.clusters[c]
        /\ \A d \in Dropped, k \in Kept :
              RLe(cluster_peak_score(d), cluster_peak_score(k))
        /\ \A c \in 2..Len(Locals.clusters) :
              LET previous == Locals.clusters[c - 1]
              IN  RLt(previous[Len(previous)].t, Locals.clusters[c][1].t)

\* a cluster is dropped although it starts before a kept one, because its
\* score is lower
C23_Witness ==
    /\ Done
    /\ Len(Locals.clusters) >= 1
    /\ \E d \in Dropped, k \in Kept :
          /\ RLt(d[1].t, k[1].t)
          /\ RLt(cluster_peak_score(d), cluster_peak_score(k))

\* the clicks in the order of their timestamps
SortedClicks ==
    sorted_by(arg.click_events,
              [k \in 1..Len(arg.click_events) |-> R(arg.click_events[k].timestamp, 1)])

\* the b-th smallest element of a set of indices
NthOf(S, b) == CHOOSE i \in S : Cardinality({j \in S : j < i}) = b - 1

\* the clicks first..last form a burst: they are exactly the clicks within
\* CLICK_WINDOW_MS after the first of them
IsBurst(first, last) ==
    {k \in first..Len(SortedClicks) :
        SortedClicks[k].timestamp - SortedClicks[first].timestamp <= CLICK_WINDOW_MS}
        = first..last

\* the peak is at the mean timestamp and the centroid of the clicks first..last
IsPeakOf(peak, first, last) ==
    LET n == last - first + 1
        mean(f) == R(ISum([k \in 1..n |-> f[first + k - 1]]), n)
        ts == [k \in 1..Len(SortedClicks) |-> SortedClicks[k].timestamp]
        xs == [k \in 1..Len(SortedClicks) |-> SortedClicks[k].x]
        ys == [k \in 1..Len(SortedClicks) |-> SortedClicks[k].y]
        rect == arg.monitor_rect
    IN  /\ peak.label = "click"
        /\ peak.t = mean(ts)
        /\ peak.x = clamp01(RDiv(RSub(mean(xs), R(rect.left, 1)), R(mon_w(rect), 1)))
        /\ peak.y = clamp01(RDiv(RSub(mean(ys), R(rect.top, 1)), R(mon_h(rect), 1)))

\* the click peaks are the peaks of the bursts that start at the clicks S
BurstsStartAt(S) ==
    LET n == Len(SortedClicks)
        m == Cardinality(S)
        first(b) == NthOf(S, b)
        last(b) == IF b = m THEN n ELSE NthOf(S, b + 1) - 1
    IN  /\ m = Len(Locals.click_peaks)
        /\ n > 0 => 1 \in S
        /\ \A b \in 1..m :
              /\ IsBurst(first(b), last(b))
              /\ IsPeakOf(Locals.click_peaks[b], first(b), last(b))

LocalsOutput == Locals.result.value

\* the chain that holds cluster k
ChainOf(k) ==
    CHOOSE c \in 1..Len(Locals.chains) :
        \E i \in 1..Len(Locals.chains[c]) : Locals.chains[c][i] = k

\* the time from the end of the hold of cluster k to the start of cluster k + 1
ChainGap(k) ==
    RSub(Locals.cluster_info[k + 1].start,
         RAdd(Locals.cluster_info[k].end, R(Locals.cluster_info[k].hold_ms, 1)))

\* C25: the chains cut the kept clusters 1..n into consecutive runs of 1 to
\* MAX_CHAIN_LENGTH clusters; cluster k + 1 is in the chain of cluster k
\* exactly when it starts less than PAN_MERGE_GAP_MS after the hold of
\* cluster k ends and that chain has fewer than MAX_CHAIN_LENGTH members up to
\* k; and the output holds one zoom-in and one zoom-out per chain and one pan
\* per further cluster.
C25_ChainsPartitionTheClusters ==
    (Done /\ Locals.result.raised = "") =>
        LET n == Len(Locals.cluster_info)
            chains == Locals.chains
        IN  /\ Concat(chains) = [k \in 1..n |-> k]
            /\ \A c \in 1..Len(chains) :
                  Len(chains[c]) >= 1 /\ Len(chains[c]) <= MAX_CHAIN_LENGTH
            /\ \A k \in 1..(n - 1) :
                  ChainOf(k + 1) = ChainOf(k)
                      <=> /\ RLt(ChainGap(k), R(PAN_MERGE_GAP_MS, 1))
                          /\ k - chains[ChainOf(k)][1] + 1 < MAX_CHAIN_LENGTH
            /\ Cardinality(Openings(LocalsOutput)) = Len(chains)
            /\ Cardinality({i \in 1..Len(LocalsOutput) : IsPan(LocalsOutput[i])})
                   = n - Len(chains)
            /\ Cardinality({i \in 1..Len(LocalsOutput) : IsZoomOut(LocalsOutput[i])})
                   = Len(chains)

\* a chain of MAX_CHAIN_LENGTH clusters followed, within the pan gap, by a
\* cluster that had to start a new chain, and a chain cut by a long gap
C25_Witness ==
    /\ Done
    /\ \E k \in 1..(Len(Locals.cluster_info) - 1) :
          /\ Len(Locals.chains[ChainOf(k)]) = MAX_CHAIN_LENGTH
          /\ RLt(ChainGap(k), R(PAN_MERGE_GAP_MS, 1))
          /\ ChainOf(k + 1) # ChainOf(k)
    /\ Cardinality({i \in 1..Len(LocalsOutput) : IsPan(LocalsOutput[i])}) = 3

\* the windows 0, 1, ... that were scored
ScoredWindows == 0..(Len(Locals.windows) - 1)

\* the timestamp of the last mouse sample
Duration == Locals.samples[Len(Locals.samples)].t

\* C26: the windows partition the whole recording: every mouse sample and
\* every key event with a timestamp in [0, duration] is counted in exactly
\* one window.
C26_WindowsCoverTheRecording ==
    (Done /\ Locals.samples # <<>>) =>
        /\ \A i \in 1..Len(Locals.samples) :
              Cardinality({wi \in ScoredWindows : in_window(Locals.samples[i].t, wi)}) = 1
        /\ \A k \in 1..Len(arg.key_events) :
              (0 <= arg.key_events[k].timestamp /\ arg.key_events[k].timestamp <= Duration)
                  => Cardinality({wi \in ScoredWindows :
                                     in_window(arg.key_events[k].timestamp, wi)}) = 1

\* the window 0, 1, ... whose record the peak is
WindowOf(peak) == CHOOSE wi \in ScoredWindows : Locals.windows[wi + 1].t = peak.t

\* C28: a mouse window without a qualifying deceleration is never selected as
\* a mouse settlement peak: every mouse peak is a window whose speed dropped
\* by at least DECEL_MIN_RATIO from the window before it, and its score is at
\* most WEIGHT_MOUSE.
C28_MousePeaksAreSettlements ==
    Done =>
        \A p \in 1..Len(Locals.mouse_peaks) :
            /\ settled(Locals.window_speeds, WindowOf(Locals.mouse_peaks[p]))
            /\ RLe(Locals.mouse_peaks[p].score, WEIGHT_MOUSE)

\* the min_gap_ms of the "Low" sensitivity preset
LowSensitivityGap == 6000

\* the longest hold, ZOOM_HOLD_TYPING_MS
LongestHold == IMax(ZOOM_HOLD_TYPING_MS, IMax(ZOOM_HOLD_CLICK_MS, ZOOM_HOLD_MOUSE_MS))

\* C30: the first peak of a cluster is at least min_gap_ms after the last peak
\* of the cluster before it, and hold_ms is at most 3000; so with min_gap_ms
\* >= 6000 every chain has exactly one cluster and the output holds no
\* "Pan to:" keyframe.
C30_LowSensitivityNeverChains ==
    (Done /\ Locals.result.raised = "") =>
        /\ \A c \in 2..Len(Locals.all_clusters) :
              LET previous == Locals.all_clusters[c - 1]
              IN  RLe(R(arg.min_gap_ms, 1),
                      RSub(Locals.all_clusters[c][1].t, previous[Len(previous)].t))
        /\ \A c \in 1..Len(Locals.cluster_info) :
              Locals.cluster_info[c].hold_ms <= PAN_MERGE_GAP_MS
        /\ arg.min_gap_ms >= LowSensitivityGap =>
              /\ \A c \in 1..Len(Locals.chains) : Len(Locals.chains[c]) = 1
              /\ \A i \in 1..Len(LocalsOutput) : ~IsPan(LocalsOutput[i])

\* the Low preset with a click cluster and, 7250 ms later, a typing cluster
C30_Witness ==
    /\ Done
    /\ arg.min_gap_ms >= LowSensitivityGap
    /\ Len(Locals.chains) >= 2
    /\ \E c \in 1..Len(Locals.cluster_info) : Locals.cluster_info[c].hold_ms = LongestHold
    /\ \E c \in 1..Len(Locals.cluster_info) : Locals.cluster_info[c].hold_ms = ZOOM_HOLD_CLICK_MS

-----------------------------------------------------------------------------
(* Claims about the size of the result *)

\* C29: for a mouse track of at least 10 samples and max_clusters >= 1,
\* analyze_activity returns at least two keyframes, a zoom-in and a zoom-out
\* among them, even when the mouse never moves and there are no key or click
\* events.
C29_ActivityAlwaysFound ==
    (Done /\ Len(arg.mouse_track) >= 10 /\ arg.max_clusters >= 1) =>
        /\ Outcome.raised = ""
        /\ Len(Output) >= 2
        /\ Openings(Output) # {}
        /\ \E i \in 1..Len(Output) : IsZoomOut(Output[i])

\* a resting cursor, no key and no click: one zoom-in and one zoom-out
C29_Witness ==
    /\ Done
    /\ arg.mouse_track = make_track(10, 2000, 10, 10)
    /\ arg.key_events = <<>>
    /\ arg.click_events = <<>>
    /\ arg.max_clusters >= 1
    /\ Len(Output) = 2
    /\ IsZoomIn(Output[1])
    /\ IsZoomOut(Output[2])

-----------------------------------------------------------------------------
(* Claims about the order of undo, checked under SpecInterleave *)

\* C27: when every edit runs push_undo() and its mutation with no step of
\* another edit in between, each successful undo() restores the list as it
\* was before the most recent edit not yet undone; when both push_undo()
\* calls happen before both mutations, the first undo() restores the list as
\* it was before both edits and the next undo() leaves the list as it is.
C27_UndoOrderNeedsAtomicEdits ==
    (trip.phase = "undo" /\ op = "undo") =>
        /\ (~trip.interleaved /\ ret = <<TRUE>>) =>
              keyframes = trip.after[EditsMade - trip.k + 1]
        /\ (trip.interleaved /\ trip.k = 1) =>
              (ret = <<TRUE>> /\ keyframes = trip.base)
        /\ (trip.interleaved /\ trip.k = 2) =>
              keyframes = trip.base

\* both push_undo() calls came first, both edits changed the list, one undo()
\* took both edits back and the second undo() succeeded and changed nothing
C27_Witness ==
    /\ trip.phase = "undo"
    /\ op = "undo"
    /\ trip.interleaved
    /\ trip.k = 2
    /\ ret = <<TRUE>>
    /\ trip.after[2] # trip.base
    /\ trip.after[3] # trip.after[2]
    /\ trip.after[3] # trip.base
    /\ keyframes = trip.base

=============================================================================
